---- MODULE Spec2Model ----
(***************************************************************************)
(* SCSA Pseudocode interpreter: lexer, Pratt parser, runFile pipeline and  *)
(* the two evaluators of the repository (the tree-walker of                *)
(* tree-walker.cpp and the visitor interpreter of interpreter.cpp).        *)
(***************************************************************************)
EXTENDS Integers, Sequences, FiniteSets, TLC

VARIABLES
    source,     \* the text of the file being run
    lexer,      \* the Lexer object
    stage,      \* InterpreterStage shared with the ErrorReporter
    pc,         \* where the run is: "scan", "parse", "run", "done", "crashed"
    exitCode,   \* the value runFile returned, -1 while it has not returned
    reports,    \* the diagnostics ErrorReporter::report printed, in order
    parser,     \* the Parser object and the statements parse() collected
    interp      \* the Interpreter object

vars == <<source, lexer, stage, pc, exitCode, reports, parser, interp>>

(***************************************************************************)
(* Bounds of the model.                                                    *)
(***************************************************************************)
MaxSrcLen == 3

(***************************************************************************)
(* Characters.  The source is a string; Ch(s, i) is s[i] with the C++      *)
(* 0-based index, and NUL stands for the '\0' that peek() and              *)
(* std::string::operator[](size()) yield.                                  *)
(***************************************************************************)
NUL == "NUL"

Ch(s, i) ==
    IF i >= 0 /\ i < Len(s) THEN SubSeq(s, i + 1, i + 1) ELSE NUL

Substr(s, pos, n) ==
    SubSeq(s, pos + 1, pos + n)

isdigit(c) == c \in {"0", "1", "2", "3", "4", "5", "6", "7", "8", "9"}

isalpha(c) ==
    c \in {"a", "b", "c", "d", "e", "f", "g", "h", "i", "j", "k", "l", "m",
     "n", "o", "p", "q", "r", "s", "t", "u", "v", "w", "x", "y", "z",
     "A", "B", "C", "D", "E", "F", "G", "H", "I", "J", "K", "L", "M",
     "N", "O", "P", "Q", "R", "S", "T", "U", "V", "W", "X", "Y", "Z"}

(***************************************************************************)
(* Lexer (src/src/lexer.cpp, first translation unit).                      *)
(***************************************************************************)
\* The keyword map filled by the constructor: spelling -> token kind.
keywords ==
    [w \in {"CLASS", "ATTRIBUTES", "METHODS", "FUNCTION", "RETURN", "END",
            "NEW", "PRINT", "WHILE", "IF", "THEN", "ELSE", "IN", "FOR",
            "TRUE", "FALSE", "Attributes", "Methods", "True", "False", "new"} |->
        CASE w = "CLASS" -> "TOK_CLASS"
          [] w = "ATTRIBUTES" -> "TOK_ATTRIBUTES"
          [] w = "METHODS" -> "TOK_METHODS"
          [] w = "FUNCTION" -> "TOK_FUNCTION"
          [] w = "RETURN" -> "TOK_RETURN"
          [] w = "END" -> "TOK_END"
          [] w = "NEW" -> "TOK_NEW"
          [] w = "PRINT" -> "TOK_PRINT"
          [] w = "WHILE" -> "TOK_WHILE"
          [] w = "IF" -> "TOK_IF"
          [] w = "THEN" -> "TOK_THEN"
          [] w = "ELSE" -> "TOK_ELSE"
          [] w = "IN" -> "TOK_IN"
          [] w = "FOR" -> "TOK_FOR"
          [] w = "TRUE" -> "TOK_TRUE"
          [] w = "FALSE" -> "TOK_FALSE"
          [] w = "Attributes" -> "TOK_ATTRIBUTES"
          [] w = "Methods" -> "TOK_METHODS"
          [] w = "True" -> "TOK_TRUE"
          [] w = "False" -> "TOK_FALSE"
          [] w = "new" -> "TOK_NEW"]

NoError == [type |-> "none"]

\* Lexer::Lexer: the member initialisers.
NewLexer ==
    [start |-> 0, current |-> 0, line |-> 1, startLine |-> 1,
     startColumn |-> 0, column |-> 0, tokens |-> <<>>,
     error |-> NoError, done |-> FALSE]

Lexer_isAtEnd(src, lx) == lx.current >= Len(src)

\* Lexer::advance: consume one character, tracking the column.
Lexer_advance(src, lx) ==
    LET c == Ch(src, lx.current)
    IN  [lx EXCEPT !.current = lx.current + 1,
                   !.column = IF c = "\n" THEN 0 ELSE lx.column + 1]

Lexer_peek(src, lx) ==
    IF Lexer_isAtEnd(src, lx) THEN NUL ELSE Ch(src, lx.current)

\* Lexer::match: whether the next character is `expected`.
Lexer_match(src, lx, expected) ==
    ~Lexer_isAtEnd(src, lx) /\ Ch(src, lx.current) = expected

\* Lexer::match, the consuming branch: current++ and nothing else.
Lexer_matchConsume(lx) ==
    [lx EXCEPT !.current = lx.current + 1]

Token(type, lexeme, line, column, length) ==
    [type |-> type, lexeme |-> lexeme, line |-> line, column |-> column,
     length |-> length]

\* Lexer::addToken(type): the lexeme is the source slice.
addToken(src, lx, type) ==
    [lx EXCEPT !.tokens = Append(lx.tokens,
        Token(type, Substr(src, lx.start, lx.current - lx.start), lx.line,
              lx.startColumn, lx.current - lx.start))]

\* Lexer::addToken(type, literal).
addTokenLiteral(lx, type, literal) ==
    [lx EXCEPT !.tokens = Append(lx.tokens,
        Token(type, literal, lx.line, lx.startColumn, lx.current - lx.start))]

RECURSIVE LineStartOf(_, _)
\* The loop of Lexer::reportError: walk back to the start of the line.
LineStartOf(src, i) ==
    IF i > 0 /\ Ch(src, i - 1) # "\n" THEN LineStartOf(src, i - 1) ELSE i

\* The first newline in [from, to), or to when there is none.
RECURSIVE FirstNewline(_, _, _)
FirstNewline(src, from, to) ==
    IF from >= to THEN to
    ELSE IF Ch(src, from) = "\n" THEN from
    ELSE FirstNewline(src, from + 1, to)

\* A report at the line the lexer has reached, not the line of the token.
reportError_AtCurrentLine(src, lx, type, message) ==
    LET errorColumn == lx.start - LineStartOf(src, lx.start)
        len0 == IF lx.current - lx.start = 0 THEN 1 ELSE lx.current - lx.start
        nl == FirstNewline(src, lx.start, lx.current)
        tokenLength == IF nl < lx.current THEN nl - lx.start ELSE len0
    IN  [lx EXCEPT !.error =
            [type |-> type, line |-> lx.line, column |-> errorColumn,
             message |-> message, length |-> tokenLength]]

\* Lexer::reportError: reporter.report(...) throws, which ends scanTokens.
reportError(src, lx, type, message) ==
    LET errorColumn == lx.start - LineStartOf(src, lx.start)
        len0 == IF lx.current - lx.start = 0 THEN 1 ELSE lx.current - lx.start
        nl == FirstNewline(src, lx.start, lx.current)
        tokenLength == IF nl < lx.current THEN nl - lx.start ELSE len0
    IN  [lx EXCEPT !.error =
            [type |-> type, line |-> lx.startLine, column |-> errorColumn,
             message |-> message, length |-> tokenLength]]

RECURSIVE StringBody(_, _, _)
\* The while loop of Lexer::string.
StringBody(src, lx, quoteType) ==
    IF Lexer_peek(src, lx) # quoteType /\ ~Lexer_isAtEnd(src, lx)
    THEN StringBody(src,
            Lexer_advance(src,
                IF Lexer_peek(src, lx) = "\n"
                THEN [lx EXCEPT !.line = lx.line + 1] ELSE lx),
            quoteType)
    ELSE lx

\* Lexer::string.
string(src, lx0, quoteType) ==
    LET lx == StringBody(src, lx0, quoteType)
    IN  IF Lexer_isAtEnd(src, lx)
        THEN reportError(src, lx, "Syntax", "Unterminated string.")
        ELSE LET l2 == Lexer_advance(src, lx)
             IN  addTokenLiteral(l2, "TOK_STRING",
                    Substr(src, l2.start + 1, l2.current - l2.start - 2))

RECURSIVE DigitRun(_, _)
DigitRun(src, lx) ==
    IF isdigit(Lexer_peek(src, lx)) THEN DigitRun(src, Lexer_advance(src, lx)) ELSE lx

\* Lexer::number.
number(src, lx0) ==
    LET lx == DigitRun(src, lx0)
    IN  IF Lexer_peek(src, lx) = "." /\ isdigit(Ch(src, lx.current + 1))
        THEN addToken(src, DigitRun(src, Lexer_advance(src, lx)), "TOK_FLOAT")
        ELSE IF ~isalpha(Lexer_peek(src, lx))
        THEN addToken(src, lx, "TOK_INTEGER")
        ELSE reportError(src, lx, "Syntax", "Identifier starts with number.")

RECURSIVE IdentRun(_, _)
IdentRun(src, lx) ==
    IF \/ isalpha(Lexer_peek(src, lx)) \/ isdigit(Lexer_peek(src, lx))
       \/ Lexer_peek(src, lx) = "_"
    THEN IdentRun(src, Lexer_advance(src, lx)) ELSE lx

\* Lexer::identifier.
identifier(src, lx0) ==
    LET lx == IdentRun(src, lx0)
        text == Substr(src, lx.start, lx.current - lx.start)
        type == IF text \in DOMAIN keywords THEN keywords[text]
                ELSE "TOK_IDENTIFIER"
    IN  addToken(src, lx, type)

RECURSIVE SkipComment(_, _)
\* while (peek() != '\n' && !isAtEnd()) advance();
SkipComment(src, lx) ==
    IF Lexer_peek(src, lx) # "\n" /\ ~Lexer_isAtEnd(src, lx)
    THEN SkipComment(src, Lexer_advance(src, lx)) ELSE lx

\* addToken(match('=') ? two : one)
TwoCharOp(src, lx, two, one) ==
    IF Lexer_match(src, lx, "=")
    THEN addToken(src, Lexer_matchConsume(lx), two)
    ELSE addToken(src, lx, one)

\* Lexer::scanToken.
scanToken(src, lx0) ==
    LET c == Ch(src, lx0.current)
        lx == Lexer_advance(src, lx0)
    IN  CASE c = "(" -> addToken(src, lx, "TOK_LPAREN")
          [] c = ")" -> addToken(src, lx, "TOK_RPAREN")
          [] c = "[" -> addToken(src, lx, "TOK_LBRACKET")
          [] c = "]" -> addToken(src, lx, "TOK_RBRACKET")
          [] c = "," -> addToken(src, lx, "TOK_COMMA")
          [] c = "." -> addToken(src, lx, "TOK_DOT")
          [] c = ":" -> addToken(src, lx, "TOK_COLON")
          [] c = "+" -> addToken(src, lx, "TOK_PLUS")
          [] c = "-" -> addToken(src, lx, "TOK_MINUS")
          [] c = "/" -> IF Lexer_match(src, lx, "/")
                        THEN SkipComment(src, Lexer_matchConsume(lx))
                        ELSE addToken(src, lx, "TOK_DIVIDE")
          [] c = "*" -> addToken(src, lx, "TOK_MULTIPLY")
          [] c = "#" -> SkipComment(src, lx)
          [] c = "=" -> TwoCharOp(src, lx, "TOK_EQUAL", "TOK_ASSIGN")
          [] c = "<" -> TwoCharOp(src, lx, "TOK_LT_OR_EQ", "TOK_LESS_THAN")
          [] c = ">" -> TwoCharOp(src, lx, "TOK_GT_OR_EQ", "TOK_GREATER_THAN")
          [] c \in {" ", "\r", "\t"} -> lx
          [] c = "\n" -> [lx EXCEPT !.line = lx.line + 1]
          [] c = "\"" -> string(src, lx, "\"")
          [] c = "'" -> string(src, lx, "'")
          [] OTHER ->
                IF isdigit(c) THEN number(src, lx)
                ELSE IF isalpha(c) \/ c = "_" THEN identifier(src, lx)
                ELSE reportError(src, lx, "Syntax",
                        "Unexpected character '" \o c \o "'.")

\* One iteration of the loop of Lexer::scanTokens.
scanTokensStep(src, lx) ==
    scanToken(src, [lx EXCEPT !.start = lx.current, !.startLine = lx.line,
                              !.startColumn = lx.column])

\* The end of Lexer::scanTokens: the End-of-input token.
scanTokensEnd(lx) ==
    [lx EXCEPT !.tokens = Append(lx.tokens,
                    Token("TOK_EOF", "", lx.line, lx.column, 0)),
               !.done = TRUE]

(***************************************************************************)
(* Parser (src/src/errors.cpp, the translation unit of parser.cpp).        *)
(* A parsing function takes the token vector and `current` and yields a    *)
(* result: st = "ok" with the node and the new `current`; st = "err" when  *)
(* ErrorReporter::report threw (with `current` at the throw and the        *)
(* diagnostic); st = "div" when the recursion never returns.               *)
(***************************************************************************)
\* enum Precedence, lowest to highest.
Precedence ==
    [PREC_NONE |-> 0, PREC_ASSIGNMENT |-> 1, PREC_EQUALITY |-> 2,
     PREC_COMPARISON |-> 3, PREC_TERM |-> 4, PREC_FACTOR |-> 5,
     PREC_CALL |-> 6, PREC_PRIMARY |-> 7]

NullNode == [k |-> "null"]

POk(cur, node) ==
    [st |-> "ok", cur |-> cur, node |-> node, diag |-> NoError]

Parser_peek(toks, cur) == toks[cur + 1]

Parser_previous(toks, cur) == toks[cur]

Parser_isAtEnd(toks, cur) == Parser_peek(toks, cur).type = "TOK_EOF"

Parser_check(toks, cur, type) ==
    ~Parser_isAtEnd(toks, cur) /\ Parser_peek(toks, cur).type = type

\* Parser::advance: the new `current`.
Parser_advance(toks, cur) ==
    IF ~Parser_isAtEnd(toks, cur) THEN cur + 1 ELSE cur

\* Parser::errorAt: reporter.report(...) throws std::runtime_error.
errorAt(cur, token, message) ==
    [st |-> "err", cur |-> cur, node |-> NullNode,
     diag |-> [type |-> "Syntax", line |-> token.line,
               message |-> IF token.type = "TOK_EOF"
                           THEN message \o " at end" ELSE message]]

\* Unbounded recursion: the call stack is exhausted.
PDiverge(cur) ==
    [st |-> "div", cur |-> cur, node |-> NullNode, diag |-> NoError]

\* Parser::consume: the node of the result is the consumed token.
consume(toks, cur, type, message) ==
    IF Parser_check(toks, cur, type)
    THEN POk(Parser_advance(toks, cur), Parser_peek(toks, cur))
    ELSE errorAt(cur, Parser_peek(toks, cur), message)

getPrecedence(type) ==
    CASE type = "TOK_ASSIGN" -> Precedence.PREC_ASSIGNMENT
      [] type = "TOK_EQUAL" -> Precedence.PREC_EQUALITY
      [] type \in {"TOK_LESS_THAN", "TOK_GREATER_THAN", "TOK_GT_OR_EQ",
                   "TOK_LT_OR_EQ", "TOK_IN"} -> Precedence.PREC_COMPARISON
      [] type \in {"TOK_PLUS", "TOK_MINUS"} -> Precedence.PREC_TERM
      [] type \in {"TOK_MULTIPLY", "TOK_DIVIDE"} -> Precedence.PREC_FACTOR
      [] type \in {"TOK_DOT", "TOK_LPAREN", "TOK_LBRACKET"} -> Precedence.PREC_CALL
      [] OTHER -> Precedence.PREC_NONE

\* Exception propagation: when r is not a normal return (report threw, or
\* the recursion diverged) the caller is left at once with r; otherwise
\* the caller goes on with F(r).
\* r is evaluated once, before F is applied to its value.
Then(r, F(_)) ==
    CHOOSE y \in {(IF x.st # "ok" THEN x ELSE F(x)) : x \in {r}} : TRUE

RECURSIVE parseExpression(_, _, _)
RECURSIVE InfixLoop(_, _, _)
RECURSIVE ExprList(_, _, _)

\* do { list.push_back(parseExpression(PREC_NONE)); } while (match(TOK_COMMA));
ExprList(toks, cur, acc) ==
    Then(parseExpression(toks, cur, Precedence.PREC_NONE), LAMBDA r :
        IF Parser_check(toks, r.cur, "TOK_COMMA")
        THEN ExprList(toks, Parser_advance(toks, r.cur), Append(acc, r.node))
        ELSE POk(r.cur, Append(acc, r.node)))

\* Prefix: grouping.
grouping(toks, cur) ==
    Then(parseExpression(toks, cur, Precedence.PREC_NONE), LAMBDA e :
    Then(consume(toks, e.cur, "TOK_RPAREN", "Expected ')' after expression."),
         LAMBDA c : POk(c.cur, e.node)))

\* Prefix: arrayLiteral.
arrayLiteral(toks, cur) ==
    Then(IF ~Parser_check(toks, cur, "TOK_RBRACKET")
         THEN ExprList(toks, cur, <<>>) ELSE POk(cur, <<>>), LAMBDA els :
    Then(consume(toks, els.cur, "TOK_RBRACKET",
                 "Expected ']' after array elements."),
         LAMBDA c : POk(c.cur, [k |-> "ArrayLit", elements |-> els.node])))

\* The argument list shared by newObject and call.
Arguments(toks, cur) ==
    Then(IF ~Parser_check(toks, cur, "TOK_RPAREN")
         THEN ExprList(toks, cur, <<>>) ELSE POk(cur, <<>>), LAMBDA args :
    Then(consume(toks, args.cur, "TOK_RPAREN", "Expected ')' after arguments."),
         LAMBDA c : POk(c.cur, args.node)))

\* Prefix: newObject.
newObject(toks, cur) ==
    Then(consume(toks, cur, "TOK_IDENTIFIER",
                 "Expected class name after 'new'."), LAMBDA className :
    Then(consume(toks, className.cur, "TOK_LPAREN",
                 "Expected '(' after class name."), LAMBDA lp :
    Then(Arguments(toks, lp.cur), LAMBDA args :
        POk(args.cur, [k |-> "New", className |-> className.node,
                       args |-> args.node]))))

\* Infix: binary.
binary(toks, cur, left) ==
    Then(parseExpression(toks, cur,
            getPrecedence(Parser_previous(toks, cur).type) + 1), LAMBDA right :
        POk(right.cur, [k |-> "Binary", left |-> left,
                        op |-> Parser_previous(toks, cur),
                        right |-> right.node]))

\* Infix: call.
call(toks, cur, left) ==
    Then(Arguments(toks, cur), LAMBDA args :
        POk(args.cur, [k |-> "Call", callee |-> left, args |-> args.node]))

\* Infix: dot.
dot(toks, cur, left) ==
    Then(consume(toks, cur, "TOK_IDENTIFIER",
                 "Expected property name after '.'."), LAMBDA name :
        POk(name.cur, [k |-> "Get", object |-> left, name |-> name.node]))

\* Infix: subscript.
subscript(toks, cur, left) ==
    Then(parseExpression(toks, cur, Precedence.PREC_NONE), LAMBDA index :
    Then(consume(toks, index.cur, "TOK_RBRACKET", "Expected ']' after index."),
         LAMBDA c : POk(c.cur, [k |-> "ArrayAccess", array |-> left,
                                index |-> index.node])))

\* Infix: assignment.
assignment(toks, cur, left) ==
    Then(parseExpression(toks, cur, Precedence.PREC_NONE), LAMBDA value :
        IF left.k \notin {"Variable", "Get", "ArrayAccess"}
        THEN errorAt(value.cur, Parser_previous(toks, value.cur),
                     "Invalid assignment target.")
        ELSE POk(value.cur, [k |-> "Assign", target |-> left,
                             value |-> value.node]))

\* The prefix case TOK_MINUS: Binary(Literal 0, -, parseExpression(PREC_CALL)).
unaryMinus(toks, cur, prefixToken) ==
    Then(parseExpression(toks, cur, Precedence.PREC_CALL), LAMBDA rhs :
        POk(rhs.cur,
            [k |-> "Binary",
             left |-> [k |-> "Literal",
                       token |-> Token("TOK_INTEGER", "0",
                                       prefixToken.line, 0, 0)],
             op |-> prefixToken, right |-> rhs.node]))

\* One infix operator applied to `left`; cur is past the operator token.
Infix(toks, cur, left) ==
    LET t == Parser_previous(toks, cur).type
    IN  CASE t \in {"TOK_PLUS", "TOK_MINUS", "TOK_MULTIPLY", "TOK_DIVIDE",
                    "TOK_EQUAL", "TOK_GREATER_THAN", "TOK_GT_OR_EQ",
                    "TOK_LESS_THAN", "TOK_LT_OR_EQ", "TOK_IN"} ->
                binary(toks, cur, left)
          [] t = "TOK_LPAREN" -> call(toks, cur, left)
          [] t = "TOK_DOT" -> dot(toks, cur, left)
          [] t = "TOK_LBRACKET" -> subscript(toks, cur, left)
          [] t = "TOK_ASSIGN" -> assignment(toks, cur, left)

\* The while loop of parseExpression over the infix operators.
InfixLoop(toks, left, precedence) ==
    Then(left, LAMBDA l :
        IF ~(precedence < getPrecedence(Parser_peek(toks, l.cur).type))
        THEN l
        ELSE InfixLoop(toks, Infix(toks, Parser_advance(toks, l.cur), l.node),
                       precedence))

\* The prefix switch of parseExpression; cur is past the prefix token, and
\* stuck tells that advance() did not move because of End-of-input.
Prefix(toks, cur, stuck) ==
    LET prefixToken == Parser_previous(toks, cur)
        t == prefixToken.type
    IN  CASE t = "TOK_IDENTIFIER" ->
                POk(cur, [k |-> "Variable", name |-> prefixToken])
          [] t \in {"TOK_INTEGER", "TOK_FLOAT", "TOK_STRING", "TOK_TRUE",
                    "TOK_FALSE"} ->
                POk(cur, [k |-> "Literal", token |-> prefixToken])
          [] t = "TOK_LPAREN" ->
                IF stuck THEN PDiverge(cur) ELSE grouping(toks, cur)
          [] t = "TOK_LBRACKET" ->
                IF stuck THEN PDiverge(cur) ELSE arrayLiteral(toks, cur)
          [] t = "TOK_NEW" -> newObject(toks, cur)
          [] t = "TOK_MINUS" ->
                IF stuck THEN PDiverge(cur)
                ELSE unaryMinus(toks, cur, prefixToken)
          [] OTHER -> errorAt(cur, prefixToken, "Expected expression.")

\* Parser::parseExpression.  advance() does not move at End-of-input, so the
\* prefix token is then the last token again: a prefix handler that parses an
\* operand first ('-', '(' and '[') re-enters parseExpression in the same
\* state and never returns.
parseExpression(toks, cur0, precedence) ==
    InfixLoop(toks,
              Prefix(toks, Parser_advance(toks, cur0), Parser_isAtEnd(toks, cur0)),
              precedence)

(***************************************************************************)
(* Statements and declarations.                                            *)
(***************************************************************************)
RECURSIVE statement(_, _)
RECURSIVE StmtLoop(_, _, _, _)
RECURSIVE ParamList(_, _, _)
RECURSIVE AttrLoop(_, _)
RECURSIVE MethodLoop(_, _, _)

\* while (!check(TOK_ELSE) && !check(TOK_END) && !isAtEnd()) push_back(statement());
\* the else branch of ifStatement loops without the TOK_ELSE test.
StmtLoop(toks, cur, acc, stopAtElse) ==
    IF (stopAtElse /\ Parser_check(toks, cur, "TOK_ELSE"))
       \/ Parser_check(toks, cur, "TOK_END") \/ Parser_isAtEnd(toks, cur)
    THEN POk(cur, acc)
    ELSE Then(statement(toks, cur), LAMBDA s :
            StmtLoop(toks, s.cur, Append(acc, s.node), stopAtElse))

\* Parser::block.
block(toks, cur) == StmtLoop(toks, cur, <<>>, TRUE)

\* Parser::returnStatement.
returnStatement(toks, cur) ==
    IF ~Parser_check(toks, cur, "TOK_END") /\ ~Parser_check(toks, cur, "TOK_ELSE")
    THEN Then(parseExpression(toks, cur, Precedence.PREC_NONE), LAMBDA value :
            POk(value.cur, [k |-> "ReturnStmt", value |-> value.node]))
    ELSE POk(cur, [k |-> "ReturnStmt", value |-> NullNode])

\* Parser::printStatement.
printStatement(toks, cur) ==
    Then(consume(toks, cur, "TOK_LPAREN", "Expected '(' after PRINT."),
         LAMBDA lp :
    Then(parseExpression(toks, lp.cur, Precedence.PREC_NONE), LAMBDA expr :
    Then(consume(toks, expr.cur, "TOK_RPAREN",
                 "Expected ')' after PRINT argument."), LAMBDA rp :
        POk(rp.cur, [k |-> "PrintStmt", expr |-> expr.node]))))

\* Parser::whileStatement.
whileStatement(toks, cur) ==
    Then(parseExpression(toks, cur, Precedence.PREC_NONE), LAMBDA condition :
    Then(block(toks, condition.cur), LAMBDA body :
    Then(consume(toks, body.cur, "TOK_END", "Expected 'END' after while loop."),
         LAMBDA e :
    Then(consume(toks, e.cur, "TOK_WHILE", "Expected 'WHILE' after 'END'."),
         LAMBDA w :
        POk(w.cur, [k |-> "WhileStmt", condition |-> condition.node,
                    body |-> body.node])))))

\* Parser::ifStatement.
ifStatement(toks, cur) ==
    Then(parseExpression(toks, cur, Precedence.PREC_NONE), LAMBDA condition :
    Then(consume(toks, condition.cur, "TOK_THEN",
                 "Expected 'THEN' after if condition."), LAMBDA th :
    Then(StmtLoop(toks, th.cur, <<>>, TRUE), LAMBDA thenBranch :
    Then(IF Parser_check(toks, thenBranch.cur, "TOK_ELSE")
         THEN StmtLoop(toks, Parser_advance(toks, thenBranch.cur), <<>>, FALSE)
         ELSE POk(thenBranch.cur, <<>>), LAMBDA elseBranch :
    Then(consume(toks, elseBranch.cur, "TOK_END", "Expected 'END' after if."),
         LAMBDA e :
    Then(consume(toks, e.cur, "TOK_IF", "Expected 'IF' after 'END'."),
         LAMBDA i :
        POk(i.cur, [k |-> "IfStmt", condition |-> condition.node,
                    thenBranch |-> thenBranch.node,
                    elseBranch |-> elseBranch.node])))))))

\* Parser::statement.
statement(toks, cur) ==
    IF Parser_check(toks, cur, "TOK_RETURN")
    THEN returnStatement(toks, Parser_advance(toks, cur))
    ELSE IF Parser_check(toks, cur, "TOK_PRINT")
    THEN printStatement(toks, Parser_advance(toks, cur))
    ELSE IF Parser_check(toks, cur, "TOK_WHILE")
    THEN whileStatement(toks, Parser_advance(toks, cur))
    ELSE IF Parser_check(toks, cur, "TOK_IF")
    THEN ifStatement(toks, Parser_advance(toks, cur))
    ELSE Then(parseExpression(toks, cur, Precedence.PREC_NONE), LAMBDA expr :
            POk(expr.cur, [k |-> "ExpressionStmt", expr |-> expr.node]))

\* do { params.push_back(consume(TOK_IDENTIFIER, ...)); } while (match(TOK_COMMA));
ParamList(toks, cur, acc) ==
    Then(consume(toks, cur, "TOK_IDENTIFIER", "Expected parameter name."),
         LAMBDA p :
        IF Parser_check(toks, p.cur, "TOK_COMMA")
        THEN ParamList(toks, Parser_advance(toks, p.cur), Append(acc, p.node))
        ELSE POk(p.cur, Append(acc, p.node)))

\* The end of a function or class declaration: the name after END must be
\* the declared name.
EndName(endName, name, node, message) ==
    IF name.lexeme # endName.node.lexeme
    THEN errorAt(endName.cur, endName.node, message)
    ELSE POk(endName.cur, node)

\* Parser::functionDeclaration.
functionDeclaration(toks, cur0) ==
    Then(IF Parser_previous(toks, cur0).type = "TOK_FUNCTION"
         THEN POk(cur0, NullNode)
         ELSE IF Parser_check(toks, cur0, "TOK_FUNCTION")
         THEN POk(Parser_advance(toks, cur0), NullNode)
         ELSE errorAt(cur0, Parser_peek(toks, cur0),
                      "Expected 'FUNCTION' keyword."), LAMBDA kw :
    Then(consume(toks, kw.cur, "TOK_IDENTIFIER", "Expected function name."),
         LAMBDA name :
    Then(consume(toks, name.cur, "TOK_LPAREN", "Expected '('."), LAMBDA lp :
    Then(IF ~Parser_check(toks, lp.cur, "TOK_RPAREN")
         THEN ParamList(toks, lp.cur, <<>>) ELSE POk(lp.cur, <<>>),
         LAMBDA params :
    Then(consume(toks, params.cur, "TOK_RPAREN", "Expected ')'."), LAMBDA rp :
    Then(block(toks, rp.cur), LAMBDA body :
    Then(consume(toks, body.cur, "TOK_END",
                 "Expected 'END' after function body."), LAMBDA e :
    Then(consume(toks, e.cur, "TOK_IDENTIFIER",
                 "Expected function name after 'END'."), LAMBDA endName :
        EndName(endName, name.node,
            [k |-> "FunctionStmt", name |-> name.node, params |-> params.node,
             body |-> body.node],
            "Function name after 'END' does not match function declaration.")
    ))))))))

\* The attribute loop of classDeclaration.
AttrLoop(toks, cur) ==
    IF Parser_check(toks, cur, "TOK_METHODS") \/ Parser_check(toks, cur, "TOK_END")
       \/ Parser_isAtEnd(toks, cur)
    THEN POk(cur, NullNode)
    ELSE Then(consume(toks, cur, "TOK_IDENTIFIER", "Expected attribute name."),
              LAMBDA a :
            IF Parser_check(toks, a.cur, "TOK_ASSIGN")
            THEN Then(parseExpression(toks, Parser_advance(toks, a.cur),
                                      Precedence.PREC_NONE),
                      LAMBDA v : AttrLoop(toks, v.cur))
            ELSE AttrLoop(toks, a.cur))

\* The method loop of classDeclaration.
MethodLoop(toks, cur, acc) ==
    IF Parser_check(toks, cur, "TOK_END") \/ Parser_isAtEnd(toks, cur)
    THEN POk(cur, acc)
    ELSE Then(functionDeclaration(toks, cur), LAMBDA m :
            MethodLoop(toks, m.cur, Append(acc, m.node)))

SkipColon(toks, cur) ==
    IF Parser_check(toks, cur, "TOK_COLON") THEN Parser_advance(toks, cur) ELSE cur

\* Parser::classDeclaration.
classDeclaration(toks, cur) ==
    Then(consume(toks, cur, "TOK_IDENTIFIER", "Expected class name."),
         LAMBDA name :
    Then(IF Parser_check(toks, name.cur, "TOK_INHERITS")
         THEN consume(toks, Parser_advance(toks, name.cur), "TOK_IDENTIFIER",
                      "Expected superclass name.")
         ELSE POk(name.cur, Token("TOK_EOF", "", 0, 0, 0)), LAMBDA superclass :
    Then(IF Parser_check(toks, superclass.cur, "TOK_ATTRIBUTES")
         THEN AttrLoop(toks,
                SkipColon(toks, Parser_advance(toks, superclass.cur)))
         ELSE POk(superclass.cur, NullNode), LAMBDA attrs :
    Then(IF Parser_check(toks, attrs.cur, "TOK_METHODS")
         THEN MethodLoop(toks,
                SkipColon(toks, Parser_advance(toks, attrs.cur)), <<>>)
         ELSE POk(attrs.cur, <<>>), LAMBDA methods :
    Then(consume(toks, methods.cur, "TOK_END",
                 "Expected 'END' after class body."), LAMBDA e :
    Then(consume(toks, e.cur, "TOK_IDENTIFIER",
                 "Expected class name after 'END'."), LAMBDA endName :
        EndName(endName, name.node,
            [k |-> "ClassStmt", name |-> name.node,
             superclass |-> superclass.node, methods |-> methods.node],
            "Class name after 'END' does not match class declaration.")
    ))))))

RECURSIVE SyncLoop(_, _)
\* The while loop of Parser::synchronize.
SyncLoop(toks, cur) ==
    IF Parser_isAtEnd(toks, cur) THEN cur
    ELSE IF Parser_previous(toks, cur).type = "TOK_END" THEN cur
    ELSE IF Parser_peek(toks, cur).type \in
              {"TOK_CLASS", "TOK_FUNCTION", "TOK_IF", "TOK_WHILE", "TOK_PRINT",
               "TOK_RETURN"}
    THEN cur
    ELSE SyncLoop(toks, Parser_advance(toks, cur))

\* A synchronize that discards no token before its loop.
synchronize_NoDiscard(toks, cur) == SyncLoop(toks, cur)

\* Parser::synchronize: the new `current`.
synchronize(toks, cur) == SyncLoop(toks, Parser_advance(toks, cur))

\* The try block of Parser::declaration.
DeclarationTry(toks, cur) ==
    IF Parser_check(toks, cur, "TOK_CLASS")
    THEN classDeclaration(toks, Parser_advance(toks, cur))
    ELSE IF Parser_check(toks, cur, "TOK_FUNCTION")
    THEN functionDeclaration(toks, Parser_advance(toks, cur))
    ELSE statement(toks, cur)

\* The catch clause of Parser::declaration: a caught exception leaves a
\* nullptr statement and `current` where synchronize() stopped; the
\* diagnostic has been printed.
DeclarationCatch(toks, r) ==
    IF r.st = "err"
    THEN [r EXCEPT !.cur = synchronize(toks, r.cur), !.node = NullNode]
    ELSE r

\* Parser::declaration.
declaration(toks, cur) == DeclarationCatch(toks, DeclarationTry(toks, cur))

(***************************************************************************)
(* Pseudocode::runFile (pseudocode.cpp): lex, print the token table, parse *)
(* and print the tree.  One step of the run is one iteration of the loop   *)
(* of Lexer::scanTokens or of Parser::parse.                               *)
(***************************************************************************)
Alphabet == {"a", "1", "=", "<", "-", "(", " ", "\n", "\""}

RECURSIVE StringsUpTo(_)
StringsUpTo(n) ==
    IF n = 0 THEN {""}
    ELSE LET shorter == StringsUpTo(n - 1)
         IN  shorter \cup {s \o c : s \in shorter, c \in Alphabet}

\* Longer files: every keyword spelling on its own, and small programs.
Corpus ==
    DOMAIN keywords \cup
    {"INHERITS", ">=a", "<=a", "1.5a", "12ab", "x = 1 +", "a[", "f(1, 2)",
     "PRINT(1)\nPRINT(2)", ") PRINT(1)", "x = ) \nIF x THEN y = 1 END IF",
     "\"ab\ncd\" x", "// c\nx", "x == 1\ny",
     "CLASS B INHERITS A END B",
     "CLASS A ATTRIBUTES: x METHODS: FUNCTION get() RETURN this.x END get END A",
     "FUNCTION f(a, b) RETURN a + b END f PRINT(f(1, 2))",
     "FUNCTION f(a) WHILE a < 3 a = a + 1 END WHILE END g",
     "p = NEW A(1) p.x = [1, 2] p.x[0] = -3 * 2 / 1",
     "IF a IN b THEN RETURN ELSE PRINT(a <= b) END IF",
     "a + b * c", "a * b + c", "a - b - c", "a / b * c", "a = b = c",
     "a == b < c", "a < b == c", "a < b - c", "a == b == c", "a < b < c",
     "a = b == c + d * e", "a * b + c < d == e", "a - b + c * d / e - f",
     "a IN b + c",
     "'ab", "x = 'a\nb", "\"a\" \"b\nc\n", "x\n  \"ab\ncd", "// \"\n'a",
     "# 'a'\n\n x == 'b\"\n\nc", "'a\"", "\"a'b'", "'a' 'b'",
     "x = 3.14y", "7.0 b", "12.a", "1.2.3",
     "-a[i]", "-f(x)", "-p.x", "-a * b", "-a + b", "-a", "b - -a", "-a.b(c)[d] * e",
     "x = ( 1 END y = 2", "x = ) y = 2 END z = 3 END PRINT(z)",
     "FUNCTION f( x = 1 RETURN 2 END f", "END END x = 1", "x = ) y z"}

Sources == StringsUpTo(MaxSrcLen) \cup Corpus

NewParser(tokens) ==
    [tokens |-> tokens, current |-> 0, statements |-> <<>>]

Init ==
    /\ source \in Sources
    /\ lexer = NewLexer
    /\ stage = "Lexing"
    /\ pc = "scan"
    /\ exitCode = -1
    /\ reports = <<>>
    /\ parser = NewParser(<<>>)
    /\ interp = [impl |-> "none"]

\* One iteration of the loop of scanTokens.  A lexical error is reported
\* and the exception leaves scanTokens; runFile catches it and returns 1.
ScanToken ==
    /\ pc = "scan"
    /\ ~Lexer_isAtEnd(source, lexer)
    /\ LET lx == scanTokensStep(source, lexer)
       IN  /\ lexer' = lx
           /\ IF lx.error # NoError
              THEN /\ reports' = Append(reports, lx.error)
                   /\ pc' = "done"
                   /\ exitCode' = 1
              ELSE UNCHANGED <<reports, pc, exitCode>>
    /\ UNCHANGED <<source, stage, parser, interp>>

\* scanTokens leaves its loop: End-of-input is pushed, the token table is
\* printed, the stage becomes Parsing and the Parser is constructed.
ScanEnd ==
    /\ pc = "scan"
    /\ Lexer_isAtEnd(source, lexer)
    /\ lexer' = scanTokensEnd(lexer)
    /\ stage' = "Parsing"
    /\ parser' = NewParser(lexer'.tokens)
    /\ pc' = "parse"
    /\ UNCHANGED <<source, exitCode, reports, interp>>

\* One iteration of the loop of Parser::parse: statements.push_back(declaration()).
ParseDeclaration ==
    /\ pc = "parse"
    /\ ~Parser_isAtEnd(parser.tokens, parser.current)
    /\ LET r == declaration(parser.tokens, parser.current)
       IN  IF r.st = "div"
           THEN /\ pc' = "crashed"
                /\ UNCHANGED <<parser, reports>>
           ELSE /\ parser' = [parser EXCEPT !.current = r.cur,
                                 !.statements = Append(parser.statements, r.node)]
                /\ reports' = IF r.st = "err" THEN Append(reports, r.diag)
                              ELSE reports
                /\ pc' = pc
    /\ UNCHANGED <<source, lexer, stage, exitCode, interp>>

\* parse() returns, the tree is printed and runFile returns 0.
ParseEnd ==
    /\ pc = "parse"
    /\ Parser_isAtEnd(parser.tokens, parser.current)
    /\ pc' = "done"
    /\ exitCode' = 0
    /\ UNCHANGED <<source, lexer, stage, reports, parser, interp>>

Next == ScanToken \/ ScanEnd \/ ParseDeclaration \/ ParseEnd

Spec == Init /\ [][Next]_vars

(***************************************************************************)
(* Run-time values shared by the two evaluators of the repository.         *)
(* A number is a double, kept here as the exact fraction n/d in lowest     *)
(* terms with d > 0.  Heap objects (environments, callables, instances,    *)
(* shared arrays) live in sequences of the interpreter state and are       *)
(* referred to by their index; 0 is nullptr.                               *)
(***************************************************************************)
RECURSIVE Gcd(_, _)
Gcd(a, b) == IF b = 0 THEN a ELSE Gcd(b, a % b)

Abs(x) == IF x < 0 THEN -x ELSE x

NullValue == [t |-> "null"]

\* Value(double): the fraction n/d in lowest terms.
NumberValue(n, d) ==
    LET g == Gcd(Abs(n), Abs(d))
        sign == IF d < 0 THEN -1 ELSE 1
    IN  [t |-> "num", n |-> sign * (n \div g), d |-> sign * (d \div g)]

StringValue(s) == [t |-> "str", s |-> s]

BoolValue(b) == [t |-> "bool", b |-> b]

CallableValue(ref) == [t |-> "callable", ref |-> ref]

InstanceValue(ref) == [t |-> "inst", ref |-> ref]

\* static_cast<int>(double): truncation towards zero.
ToInt(v) ==
    IF v.n >= 0 THEN v.n \div v.d ELSE -((-v.n) \div v.d)

RECURSIVE DigitsToNat(_, _)
\* The decimal digits of s, read left to right onto acc.
DigitsToNat(s, acc) ==
    IF s = "" THEN acc
    ELSE LET c == Head(s)
             dv == CASE c = "0" -> 0 [] c = "1" -> 1 [] c = "2" -> 2
                     [] c = "3" -> 3 [] c = "4" -> 4 [] c = "5" -> 5
                     [] c = "6" -> 6 [] c = "7" -> 7 [] c = "8" -> 8
                     [] c = "9" -> 9
         IN  DigitsToNat(Tail(s), 10 * acc + dv)

RECURSIVE Pow10(_)
Pow10(k) == IF k = 0 THEN 1 ELSE 10 * Pow10(k - 1)

RECURSIVE StripLeadingZeros(_)
\* The digits s without their leading zeros; at least one digit stays.
StripLeadingZeros(s) ==
    IF Len(s) > 1 /\ Ch(s, 0) = "0"
    THEN StripLeadingZeros(Substr(s, 1, Len(s) - 1))
    ELSE s

RECURSIVE StripTrailingZeros(_)
\* The fraction digits s without their trailing zeros.
StripTrailingZeros(s) ==
    IF s # "" /\ Ch(s, Len(s) - 1) = "0"
    THEN StripTrailingZeros(Substr(s, 0, Len(s) - 1))
    ELSE s

\* The digits s denote an integer above INT_MAX = 2147483647.
ExceedsInt(s) ==
    LET digits == StripLeadingZeros(s)
    IN  \/ Len(digits) > 10
        \/ /\ Len(digits) = 10
           /\ LET hi == DigitsToNat(Substr(digits, 0, 5), 0)
                  lo == DigitsToNat(Substr(digits, 5, 5), 0)
              IN  hi > 21474 \/ (hi = 21474 /\ lo > 83647)

\* Value(double) of a magnitude that no fraction of two 32-bit integers
\* holds: the digits of its whole part and of its fraction, kept as text
\* (exact up to the 15 significant digits a double holds). Such a Number
\* is stored, passed and displayed; arithmetic is not defined on it.
BigNumberValue(whole, frac) ==
    [t |-> "num", whole |-> whole, frac |-> frac]

IsBig(v) == "whole" \in DOMAIN v

\* std::stod on a lexeme of Lexer::number: digits, optionally '.' digits.
stod(lexeme) ==
    LET hasDot == \E i \in 0..(Len(lexeme) - 1) : Ch(lexeme, i) = "."
        dotAt == IF hasDot
               THEN CHOOSE i \in 0..(Len(lexeme) - 1) : Ch(lexeme, i) = "."
               ELSE Len(lexeme)
        fracLen == IF hasDot THEN Len(lexeme) - dotAt - 1 ELSE 0
        whole == Substr(lexeme, 0, dotAt)
        frac == StripTrailingZeros(Substr(lexeme, dotAt + 1, fracLen))
    IN  IF ExceedsInt(whole \o frac) \/ Len(frac) > 9
        THEN BigNumberValue(StripLeadingZeros(whole), frac)
        ELSE NumberValue(DigitsToNat(whole \o frac, 0), Pow10(Len(frac)))

RECURSIVE NatToString(_)
\* std::to_string of a non-negative int.
NatToString(n) ==
    LET d == n % 10
        c == CASE d = 0 -> "0" [] d = 1 -> "1" [] d = 2 -> "2" [] d = 3 -> "3"
               [] d = 4 -> "4" [] d = 5 -> "5" [] d = 6 -> "6" [] d = 7 -> "7"
               [] d = 8 -> "8" [] d = 9 -> "9"
    IN  IF n < 10 THEN c ELSE NatToString(n \div 10) \o c

\* std::to_string(int).
IntToString(i) == IF i < 0 THEN "-" \o NatToString(-i) ELSE NatToString(i)

\* The first six digits of the fraction digits s, filled up with zeros.
SixDigits(s) ==
    IF Len(s) >= 6 THEN Substr(s, 0, 6)
    ELSE s \o Substr("000000", 0, 6 - Len(s))

RECURSIVE Quotient(_, _, _, _)
\* Long division of rem by d to k more decimal places, onto acc: the
\* digits read as a number, and the remainder left.
Quotient(rem, d, k, acc) ==
    IF k = 0 THEN [digits |-> acc, rem |-> rem]
    ELSE Quotient((rem * 10) % d, d, k - 1, acc * 10 + (rem * 10) \div d)

\* std::to_string(double): "%f", six digits after the point, rounded.
DoubleToString(v) ==
    IF IsBig(v) THEN v.whole \o "." \o SixDigits(v.frac) ELSE
    LET q == Quotient(Abs(v.n) % v.d, v.d, 6, 0)
        up == IF 2 * q.rem >= v.d THEN 1 ELSE 0
        whole == Abs(v.n) \div v.d + (q.digits + up) \div 1000000
        frac == NatToString(1000000 + ((q.digits + up) % 1000000))
    IN  (IF v.n < 0 /\ (whole > 0 \/ q.digits + up > 0) THEN "-" ELSE "")
            \o NatToString(whole) \o "." \o Tail(frac)

\* The result of evaluating an expression or executing a statement: the
\* interpreter state I after it, and how it ended: st = "ok" with value v,
\* "return" (ReturnException carrying v), "err" (an exception of class exc
\* with what() = msg), "div" (it never returns) or "ub" (undefined
\* behaviour was reached).
ROk(I, v) == [st |-> "ok", I |-> I, v |-> v, exc |-> "", msg |-> ""]

RThrow(I, exc, msg) ==
    [st |-> "err", I |-> I, v |-> NullValue, exc |-> exc, msg |-> msg]

RStop(I, st) == [st |-> st, I |-> I, v |-> NullValue, exc |-> "", msg |-> ""]

\* One more event on the recorded history of the run.
Log(I, event) == [I EXCEPT !.trace = Append(@, event)]

(***************************************************************************)
(* The tree-walking evaluator (tree-walker.hpp, tree-walker.cpp).          *)
(***************************************************************************)
MaxFuel == 6

EmptyMap == [x \in {} |-> NullValue]

\* std::map::operator[] assignment: m[k] = v.
Put(m, k, v) == [x \in DOMAIN m \cup {k} |-> IF x = k THEN v ELSE m[x]]

\* Interpreter::Interpreter: globals is environment 1 and is current.
\* fuel bounds the calls and loop iterations of a run; trace is the
\* recorded history of calls, statements and returns.
NewInterpreter(impl) ==
    [impl |-> impl,
     envs |-> <<[values |-> EmptyMap, parent |-> 0]>>,
     globals |-> 1, environment |-> 1,
     callables |-> <<>>, instances |-> <<>>, arrays |-> <<>>,
     out |-> <<>>, result |-> NullValue,
     fuel |-> MaxFuel, trace |-> <<>>, ip |-> 1, junk |-> NullValue]

\* std::make_shared<Environment>(parent): the new heap and the new index.
NewEnvironment(I, parent) ==
    [I EXCEPT !.envs = Append(@, [values |-> EmptyMap, parent |-> parent])]

\* Environment::define.
Environment_define(I, e, name, value) ==
    [I EXCEPT !.envs[e].values = Put(@, name, value)]

RECURSIVE Environment_get(_, _, _)
\* Environment::get.
Environment_get(I, e, name) ==
    IF name \in DOMAIN I.envs[e].values THEN ROk(I, I.envs[e].values[name])
    ELSE IF I.envs[e].parent # 0
    THEN Environment_get(I, I.envs[e].parent, name)
    ELSE RThrow(I, IF I.impl = "visitor" THEN "RuntimeError" ELSE "runtime_error",
                "Undefined variable '" \o name \o "'.")

RECURSIVE Environment_assign(_, _, _, _)
\* Environment::assign.
Environment_assign(I, e, name, value) ==
    IF name \in DOMAIN I.envs[e].values
    THEN ROk([I EXCEPT !.envs[e].values[name] = value], value)
    ELSE IF I.envs[e].parent # 0
    THEN Environment_assign(I, I.envs[e].parent, name, value)
    ELSE RThrow(I, IF I.impl = "visitor" THEN "RuntimeError" ELSE "runtime_error",
                "Undefined variable '" \o name \o "'.")

RECURSIVE Environment_exists(_, _, _)
\* Environment::exists.
Environment_exists(I, e, name) ==
    \/ name \in DOMAIN I.envs[e].values
    \/ I.envs[e].parent # 0 /\ Environment_exists(I, I.envs[e].parent, name)

\* A lookup that consults the class's own methods only.
findMethod_OwnOnly(I, klass, name) ==
    IF name \in DOMAIN I.callables[klass].methods
    THEN I.callables[klass].methods[name]
    ELSE 0

RECURSIVE findMethod(_, _, _)
\* ClassObject::findMethod: the FunctionObject, or 0 for nullptr.
findMethod(I, klass, name) ==
    IF name \in DOMAIN I.callables[klass].methods
    THEN I.callables[klass].methods[name]
    ELSE IF I.callables[klass].superclass # 0
    THEN findMethod(I, I.callables[klass].superclass, name)
    ELSE 0

\* ClassObject::arity.
ClassObject_arity(I, klass) ==
    IF findMethod(I, klass, "constructor") # 0
    THEN Len(I.callables[findMethod(I, klass, "constructor")].declaration.params)
    ELSE 0

\* std::to_string(static_cast<int>(num)) of an integer-valued num above
\* INT_MAX: the conversion is undefined; the builds give INT_MIN (the
\* x86-64 cvttsd2si) or INT_MAX (the saturating AArch64 fcvtzs).
IntOfDouble(I) ==
    IF I.junk.t = "num" THEN "2147483647" ELSE "-2147483648"

RECURSIVE Value_toString(_, _)
RECURSIVE JoinElements(_, _, _)
\* The loop of Value::toString over the elements of an array.
JoinElements(I, arr, i) ==
    IF i > Len(arr) THEN ""
    ELSE Value_toString(I, arr[i]) \o (IF i < Len(arr) THEN ", " ELSE "")
            \o JoinElements(I, arr, i + 1)

\* Value::toString.
Value_toString(I, v) ==
    CASE v.t = "null" -> "null"
      [] v.t = "num" ->
            IF IsBig(v)
            THEN IF v.frac = "" THEN IntOfDouble(I) ELSE DoubleToString(v)
            ELSE IF v.d = 1 THEN IntToString(v.n) ELSE DoubleToString(v)
      [] v.t = "str" -> v.s
      [] v.t = "bool" -> IF v.b THEN "true" ELSE "false"
      [] v.t = "arr" -> "[" \o JoinElements(I, v.elems, 1) \o "]"
      [] v.t = "callable" ->
            IF I.callables[v.ref].kind = "fn"
            THEN "<fn " \o I.callables[v.ref].declaration.name.lexeme \o ">"
            ELSE "<class " \o I.callables[v.ref].name \o ">"
      [] v.t = "inst" ->
            "<" \o I.callables[I.instances[v.ref].klass].name \o " instance>"

\* Value::isTruthy.
Value_isTruthy(v) ==
    CASE v.t = "null" -> FALSE
      [] v.t = "bool" -> v.b
      [] v.t = "num" -> IsBig(v) \/ v.n # 0
      [] v.t = "str" -> v.s # ""
      [] OTHER -> TRUE

\* Interpreter::isEqual of the tree-walker.
TreeWalker_isEqual(a, b) ==
    IF a.t = "null" /\ b.t = "null" THEN TRUE
    ELSE IF a.t = "null" \/ b.t = "null" THEN FALSE
    ELSE IF a.t = "num" /\ b.t = "num" THEN a = b
    ELSE IF a.t = "str" /\ b.t = "str" THEN a.s = b.s
    ELSE IF a.t = "bool" /\ b.t = "bool" THEN a.b = b.b
    ELSE FALSE

RECURSIVE Holds(_, _)
\* The value v holds a shared_ptr to the callable c, itself or in an element.
Holds(v, c) ==
    \/ v = CallableValue(c)
    \/ v.t = "arr" /\ \E i \in 1..Len(v.elems) : Holds(v.elems[i], c)

\* Some shared_ptr that owns the ClassObject c exists: a Value in a frame,
\* in a field or in a vector, or the superclass member of a class.  The
\* klass member of an InstanceObject owns nothing (its deleter is empty).
Owned(I, c) ==
    \/ \E e \in 1..Len(I.envs) : \E n \in DOMAIN I.envs[e].values :
            Holds(I.envs[e].values[n], c)
    \/ \E i \in 1..Len(I.instances) : \E f \in DOMAIN I.instances[i].fields :
            Holds(I.instances[i].fields[f], c)
    \/ \E a \in 1..Len(I.arrays) : \E j \in 1..Len(I.arrays[a]) :
            Holds(I.arrays[a][j], c)
    \/ \E k \in 1..Len(I.callables) :
            I.callables[k].kind = "class" /\ I.callables[k].superclass = c

\* The last owner of the ClassObject c is gone: the object was deleted.
Released(I, c) == ~Owned(I, c)

\* InstanceObject::get on an instance whose class is alive.
InstanceObject_getAlive(I, inst, name) ==
    IF name \in DOMAIN I.instances[inst].fields
    THEN ROk(I, I.instances[inst].fields[name])
    ELSE IF findMethod(I, I.instances[inst].klass, name) # 0
    THEN ROk(I, CallableValue(findMethod(I, I.instances[inst].klass, name)))
    ELSE RThrow(I, "runtime_error", "Undefined property '" \o name \o "'.")

\* InstanceObject::get.  klass->findMethod(name) on a deleted ClassObject
\* is undefined behaviour: the run crashes, or the read of the freed
\* methods map finds nothing, or it finds what the map held (I.junk).
InstanceObject_get(I, inst, name) ==
    IF name \in DOMAIN I.instances[inst].fields
    THEN ROk(I, I.instances[inst].fields[name])
    ELSE IF Released(I, I.instances[inst].klass)
    THEN LET D == Log(I, [e |-> "dangling", instance |-> inst,
                          klass |-> I.instances[inst].klass])
         IN  IF I.junk.t = "crash" THEN RStop(D, "ub")
             ELSE IF I.junk.t = "null"
             THEN RThrow(D, "runtime_error", "Undefined property '" \o name \o "'.")
             ELSE InstanceObject_getAlive(D, inst, name)
    ELSE InstanceObject_getAlive(I, inst, name)

\* The truth test of the evaluator that runs: Interpreter::isTruthy of
\* interpreter.cpp, Value::isTruthy of tree-walker.cpp.
isTruthy(I, v) ==
    IF I.impl # "visitor" THEN Value_isTruthy(v)
    ELSE IF v.t = "null" THEN FALSE ELSE IF v.t = "bool" THEN v.b ELSE TRUE

RECURSIVE evaluate(_, _)
RECURSIVE execute(_, _)
RECURSIVE EvaluateAll(_, _, _, _)
RECURSIVE ExecuteAll(_, _, _)
RECURSIVE executeWhileStmt(_, _)

\* for (arg : exprs) values.push_back(evaluate(arg)): v is the vector.
EvaluateAll(I, exprs, i, acc) ==
    IF i > Len(exprs) THEN ROk(I, acc)
    ELSE Then(evaluate(I, exprs[i]), LAMBDA r :
            EvaluateAll(r.I, exprs, i + 1, Append(acc, r.v)))

\* for (stmt : statements) execute(stmt).
ExecuteAll(I, statements, i) ==
    IF i > Len(statements) THEN ROk(I, NullValue)
    ELSE Then(execute(I, statements[i]), LAMBDA r :
            ExecuteAll(r.I, statements, i + 1))

\* A block that restores the environment only when its statements complete.
executeBlock_NoCatch(I, statements, env) ==
    LET r == ExecuteAll([I EXCEPT !.environment = env], statements, 1)
    IN  IF r.st = "ok" THEN [r EXCEPT !.I.environment = I.environment] ELSE r

\* Interpreter::executeBlock (the same code in both evaluators):
\* environment = previous on the normal path and in catch (...).
executeBlock(I, statements, env) ==
    [ExecuteAll([I EXCEPT !.environment = env], statements, 1)
        EXCEPT !.I.environment = I.environment]

RECURSIVE DefineParams(_, _, _, _, _)
\* for (i < count) env->define(params[i].lexeme, args[i]).
DefineParams(I, e, params, args, count) ==
    IF count = 0 THEN I
    ELSE Environment_define(DefineParams(I, e, params, args, count - 1), e,
                            params[count].lexeme, args[count])

\* A call boundary that catches the ReturnException and yields Null.
CatchReturn_DropsValue(r, frame) ==
    IF r.st \in {"return", "ok"}
    THEN ROk(Log(r.I, [e |-> "exit", frame |-> frame, v |-> NullValue,
                       env |-> r.I.environment]), NullValue)
    ELSE r

\* The end of FunctionObject::call: catch (ReturnException) yields its
\* value, a body that completes yields null, anything else propagates.
CatchReturn(r, frame) ==
    IF r.st = "return"
    THEN ROk(Log(r.I, [e |-> "exit", frame |-> frame, v |-> r.v,
                       env |-> r.I.environment]), r.v)
    ELSE IF r.st = "ok"
    THEN ROk(Log(r.I, [e |-> "exit", frame |-> frame, v |-> NullValue,
                       env |-> r.I.environment]), NullValue)
    ELSE r

\* A body run in a frame whose parent is the caller's frame.
FunctionEnv_OfCaller(I, f) == NewEnvironment(I, I.environment)

\* The environment in which FunctionObject::call runs the body.
FunctionEnv(I, f) == NewEnvironment(I, I.callables[f].closure)

\* FunctionObject::call.
FunctionObject_call(I, f, args) ==
    IF I.fuel = 0 THEN RStop(I, "div")
    ELSE CatchReturn(
            executeBlock(
                Log(DefineParams([FunctionEnv(I, f) EXCEPT !.fuel = @ - 1],
                                 Len(I.envs) + 1,
                                 I.callables[f].declaration.params, args,
                                 Len(I.callables[f].declaration.params)),
                    [e |-> "enter", frame |-> Len(I.envs) + 1, fn |-> f,
                     caller |-> I.environment]),
                I.callables[f].declaration.body, Len(I.envs) + 1),
            Len(I.envs) + 1)

\* catch (const ReturnException&) {} of ClassObject::call.
IgnoreReturn(r) == IF r.st = "return" THEN ROk(r.I, NullValue) ELSE r

\* ClassObject::call: the instance, then the constructor (if any) run in a
\* new environment that binds `this`; a ReturnException is ignored.
ClassObject_call(I, klass, args) ==
    LET instance == Len(I.instances) + 1
        I1 == [I EXCEPT !.instances =
                    Append(@, [klass |-> klass, fields |-> EmptyMap])]
        constructor == findMethod(I, klass, "constructor")
        constructorEnv == Len(I.envs) + 1
        params == I.callables[constructor].declaration.params
        I2 == DefineParams(
                Environment_define(
                    NewEnvironment(I1, I.callables[constructor].closure),
                    constructorEnv, "this", InstanceValue(instance)),
                constructorEnv, params, args, IF Len(args) < Len(params) THEN Len(args) ELSE Len(params))
    IN  IF constructor = 0 THEN ROk(I1, InstanceValue(instance))
        ELSE IF I.fuel = 0 THEN RStop(I, "div")
        ELSE Then(
                IgnoreReturn(
                    executeBlock([I2 EXCEPT !.fuel = @ - 1],
                        I.callables[constructor].declaration.body,
                        constructorEnv)),
                LAMBDA r : ROk(r.I, InstanceValue(instance)))

\* CallableObject::arity (virtual).
CallableObject_arity(I, c) ==
    IF I.callables[c].kind = "fn" THEN Len(I.callables[c].declaration.params)
    ELSE ClassObject_arity(I, c)

\* CallableObject::call (virtual).
CallableObject_call(I, c, args) ==
    IF I.callables[c].kind = "fn" THEN FunctionObject_call(I, c, args)
    ELSE ClassObject_call(I, c, args)

\* Interpreter::evaluateLiteral; std::stoi throws std::out_of_range beyond int.
evaluateLiteral(I, expr) ==
    CASE expr.token.type = "TOK_INTEGER" ->
            IF ExceedsInt(expr.token.lexeme)
            THEN RThrow(I, "out_of_range", "stoi")
            ELSE ROk(I, NumberValue(DigitsToNat(expr.token.lexeme, 0), 1))
      [] expr.token.type = "TOK_FLOAT" -> ROk(I, stod(expr.token.lexeme))
      [] expr.token.type = "TOK_STRING" -> ROk(I, StringValue(expr.token.lexeme))
      [] expr.token.type = "TOK_TRUE" -> ROk(I, BoolValue(TRUE))
      [] expr.token.type = "TOK_FALSE" -> ROk(I, BoolValue(FALSE))
      [] OTHER -> ROk(I, NullValue)

\* Interpreter::evaluateVariable.
evaluateVariable(I, expr) == Environment_get(I, I.environment, expr.name.lexeme)

\* The ArrayAccessExpr branch of evaluateAssign, after the array and the
\* index were evaluated: arr[idx] = value writes the local copy arrayVal.
AssignElement(I, arrayVal, indexVal, value) ==
    IF indexVal.t # "num"
    THEN RThrow(I, "runtime_error", "Array index must be a number.")
    ELSE IF ToInt(indexVal) < 0 \/ ToInt(indexVal) >= Len(arrayVal.elems)
    THEN RThrow(I, "runtime_error", "Array index out of bounds.")
    ELSE ROk(I, value)

\* An assignment that always binds in the current frame.
AssignVariable_AlwaysDefines(I, name, value) ==
    ROk(Environment_define(I, I.environment, name, value), value)

\* The VariableExpr branch of evaluateAssign.
AssignVariable(I, name, value) ==
    IF ~Environment_exists(I, I.environment, name)
    THEN ROk(Environment_define(I, I.environment, name, value), value)
    ELSE Environment_assign(I, I.environment, name, value)

\* Interpreter::evaluateAssign.
evaluateAssign(I, expr) ==
    Then(evaluate(I, expr.value), LAMBDA value :
        CASE expr.target.k = "Variable" ->
                AssignVariable(value.I, expr.target.name.lexeme, value.v)
          [] expr.target.k = "Get" ->
                Then(evaluate(value.I, expr.target.object), LAMBDA object :
                    IF object.v.t # "inst"
                    THEN RThrow(object.I, "runtime_error",
                                "Only instances have properties.")
                    ELSE ROk([object.I EXCEPT !.instances[object.v.ref].fields =
                                Put(@, expr.target.name.lexeme, value.v)], value.v))
          [] expr.target.k = "ArrayAccess" ->
                Then(evaluate(value.I, expr.target.array), LAMBDA arrayVal :
                    IF arrayVal.v.t # "arr"
                    THEN RThrow(arrayVal.I, "runtime_error",
                                "Can only index arrays.")
                    ELSE Then(evaluate(arrayVal.I, expr.target.index),
                              LAMBDA indexVal :
                            AssignElement(indexVal.I, arrayVal.v, indexVal.v,
                                          value.v)))
          [] OTHER -> value)

\* A switch whose quotient by zero is the Number 0.
BinaryOp_ZeroQuotient(I, op, left, right) ==
    LET bothNumbers == left.t = "num" /\ right.t = "num"
        notNumbers == RThrow(I, "runtime_error", "Operands must be numbers.")
        l == left.n * right.d
        r == right.n * left.d
    IN  CASE op = "TOK_PLUS" ->
                IF bothNumbers
                THEN ROk(I, NumberValue(l + r, left.d * right.d))
                ELSE IF left.t = "str" /\ right.t = "str"
                THEN ROk(I, StringValue(left.s \o right.s))
                ELSE RThrow(I, "runtime_error",
                            "Operands must be two numbers or two strings.")
          [] op = "TOK_MINUS" ->
                IF ~bothNumbers THEN notNumbers
                ELSE ROk(I, NumberValue(l - r, left.d * right.d))
          [] op = "TOK_MULTIPLY" ->
                IF ~bothNumbers THEN notNumbers
                ELSE ROk(I, NumberValue(left.n * right.n, left.d * right.d))
          [] op = "TOK_DIVIDE" ->
                IF ~bothNumbers THEN notNumbers
                ELSE IF right.n = 0
                THEN ROk(I, NumberValue(0, 1))
                ELSE ROk(I, NumberValue(left.n * right.d, left.d * right.n))
          [] op = "TOK_EQUAL" -> ROk(I, BoolValue(TreeWalker_isEqual(left, right)))
          [] op = "TOK_GREATER_THAN" ->
                IF ~bothNumbers THEN notNumbers ELSE ROk(I, BoolValue(l > r))
          [] op = "TOK_GT_OR_EQ" ->
                IF ~bothNumbers THEN notNumbers ELSE ROk(I, BoolValue(l >= r))
          [] op = "TOK_LESS_THAN" ->
                IF ~bothNumbers THEN notNumbers ELSE ROk(I, BoolValue(l < r))
          [] op = "TOK_LT_OR_EQ" ->
                IF ~bothNumbers THEN notNumbers ELSE ROk(I, BoolValue(l <= r))
          [] op = "TOK_IN" ->
                IF right.t # "arr"
                THEN RThrow(I, "runtime_error",
                            "'IN' operator requires an array on the right.")
                ELSE ROk(I, BoolValue(\E i \in 1..Len(right.elems) :
                                        TreeWalker_isEqual(left, right.elems[i])))
          [] OTHER -> RThrow(I, "runtime_error", "Unknown binary operator.")

\* The switch of Interpreter::evaluateBinary on the evaluated operands.
BinaryOp(I, op, left, right) ==
    LET bothNumbers == left.t = "num" /\ right.t = "num"
        notNumbers == RThrow(I, "runtime_error", "Operands must be numbers.")
        l == left.n * right.d
        r == right.n * left.d
    IN  CASE op = "TOK_PLUS" ->
                IF bothNumbers
                THEN ROk(I, NumberValue(l + r, left.d * right.d))
                ELSE IF left.t = "str" /\ right.t = "str"
                THEN ROk(I, StringValue(left.s \o right.s))
                ELSE RThrow(I, "runtime_error",
                            "Operands must be two numbers or two strings.")
          [] op = "TOK_MINUS" ->
                IF ~bothNumbers THEN notNumbers
                ELSE ROk(I, NumberValue(l - r, left.d * right.d))
          [] op = "TOK_MULTIPLY" ->
                IF ~bothNumbers THEN notNumbers
                ELSE ROk(I, NumberValue(left.n * right.n, left.d * right.d))
          [] op = "TOK_DIVIDE" ->
                IF ~bothNumbers THEN notNumbers
                ELSE IF right.n = 0
                THEN RThrow(I, "runtime_error", "Division by zero.")
                ELSE ROk(I, NumberValue(left.n * right.d, left.d * right.n))
          [] op = "TOK_EQUAL" -> ROk(I, BoolValue(TreeWalker_isEqual(left, right)))
          [] op = "TOK_GREATER_THAN" ->
                IF ~bothNumbers THEN notNumbers ELSE ROk(I, BoolValue(l > r))
          [] op = "TOK_GT_OR_EQ" ->
                IF ~bothNumbers THEN notNumbers ELSE ROk(I, BoolValue(l >= r))
          [] op = "TOK_LESS_THAN" ->
                IF ~bothNumbers THEN notNumbers ELSE ROk(I, BoolValue(l < r))
          [] op = "TOK_LT_OR_EQ" ->
                IF ~bothNumbers THEN notNumbers ELSE ROk(I, BoolValue(l <= r))
          [] op = "TOK_IN" ->
                IF right.t # "arr"
                THEN RThrow(I, "runtime_error",
                            "'IN' operator requires an array on the right.")
                ELSE ROk(I, BoolValue(\E i \in 1..Len(right.elems) :
                                        TreeWalker_isEqual(left, right.elems[i])))
          [] OTHER -> RThrow(I, "runtime_error", "Unknown binary operator.")

\* Interpreter::evaluateBinary.
evaluateBinary(I, expr) ==
    Then(evaluate(I, expr.left), LAMBDA left :
    Then(evaluate(left.I, expr.right), LAMBDA right :
        BinaryOp(right.I, expr.op.type, left.v, right.v)))

\* Interpreter::evaluateCall.
evaluateCall(I, expr) ==
    Then(evaluate(I, expr.callee), LAMBDA callee :
    Then(EvaluateAll(callee.I, expr.args, 1, <<>>), LAMBDA args :
        IF callee.v.t # "callable"
        THEN RThrow(args.I, "runtime_error", "Can only call functions and classes.")
        ELSE IF Len(args.v) # CallableObject_arity(args.I, callee.v.ref)
        THEN RThrow(Log(args.I, [e |-> "apply", callable |-> callee.v.ref,
                                 args |-> Len(args.v), ran |-> FALSE]),
                    "runtime_error",
                    "Expected "
                        \o IntToString(CallableObject_arity(args.I, callee.v.ref))
                        \o " arguments but got " \o IntToString(Len(args.v)) \o ".")
        ELSE CallableObject_call(
                Log(args.I, [e |-> "apply", callable |-> callee.v.ref,
                             args |-> Len(args.v), ran |-> TRUE]),
                callee.v.ref, args.v)))

\* Interpreter::evaluateGet.
evaluateGet(I, expr) ==
    Then(evaluate(I, expr.object), LAMBDA object :
        IF object.v.t # "inst"
        THEN RThrow(object.I, "runtime_error", "Only instances have properties.")
        ELSE InstanceObject_get(object.I, object.v.ref, expr.name.lexeme))

\* Interpreter::evaluateArrayAccess.
evaluateArrayAccess(I, expr) ==
    Then(evaluate(I, expr.array), LAMBDA array :
    Then(evaluate(array.I, expr.index), LAMBDA index :
        IF array.v.t # "arr"
        THEN RThrow(index.I, "runtime_error", "Can only index arrays.")
        ELSE IF index.v.t # "num"
        THEN RThrow(index.I, "runtime_error", "Array index must be a number.")
        ELSE IF ToInt(index.v) < 0 \/ ToInt(index.v) >= Len(array.v.elems)
        THEN RThrow(index.I, "runtime_error", "Array index out of bounds.")
        ELSE ROk(index.I, array.v.elems[ToInt(index.v) + 1])))

\* Interpreter::evaluateArrayLit: the array is held by value.
evaluateArrayLit(I, expr) ==
    Then(EvaluateAll(I, expr.elements, 1, <<>>), LAMBDA elements :
        ROk(elements.I, [t |-> "arr", elems |-> elements.v]))

\* Interpreter::evaluateNew: klass->call without a check of the arity.
evaluateNew(I, expr) ==
    Then(Environment_get(I, I.environment, expr.className.lexeme),
         LAMBDA classValue :
        IF classValue.v.t # "callable"
        THEN RThrow(I, "runtime_error", "Can only instantiate classes.")
        ELSE IF I.callables[classValue.v.ref].kind # "class"
        THEN RThrow(I, "runtime_error", "Can only instantiate classes.")
        ELSE Then(EvaluateAll(I, expr.args, 1, <<>>), LAMBDA args :
                ClassObject_call(args.I, classValue.v.ref, args.v)))

(***************************************************************************)
(* The visitor evaluator (interpreter.cpp, interpreter.hpp, runtime.hpp).  *)
(* An array is a shared_ptr to a vector: the value [t |-> "vec", ref] and  *)
(* the vector I.arrays[ref].  The statements and helpers whose code is     *)
(* the same in both evaluators are the operators above.                    *)
(***************************************************************************)
\* Interpreter::isEqual of interpreter.cpp.
Interpreter_isEqual(a, b) ==
    IF a.t # b.t THEN FALSE
    ELSE IF a.t = "null" THEN TRUE
    ELSE IF a.t \in {"num", "bool", "str"} THEN a = b
    ELSE FALSE

RECURSIVE TrimZeros(_)
\* text.erase(text.find_last_not_of('0') + 1); if (text.back() == '.') pop_back.
TrimZeros(text) ==
    IF Ch(text, Len(text) - 1) = "0" THEN TrimZeros(Substr(text, 0, Len(text) - 1))
    ELSE IF Ch(text, Len(text) - 1) = "." THEN Substr(text, 0, Len(text) - 1)
    ELSE text

RECURSIVE stringify(_, _, _)
\* stringify of runtime.hpp; on a vector, from element i on.
stringify(I, v, i) ==
    CASE v.t = "null" -> "nil"
      [] v.t = "num" -> TrimZeros(DoubleToString(v))
      [] v.t = "bool" -> IF v.b THEN "true" ELSE "false"
      [] v.t = "str" -> v.s
      [] v.t = "vec" ->
            (IF i = 1 THEN "[" ELSE "")
            \o (IF i > Len(I.arrays[v.ref]) THEN "]"
                ELSE stringify(I, I.arrays[v.ref][i], 1)
                     \o (IF i < Len(I.arrays[v.ref]) THEN ", " ELSE "")
                     \o stringify(I, v, i + 1))
      [] v.t = "callable" ->
            IF I.callables[v.ref].kind = "fn"
            THEN "<fn " \o I.callables[v.ref].declaration.name.lexeme \o ">"
            ELSE "<class " \o I.callables[v.ref].name \o ">"
      [] v.t = "inst" -> "Instance"
      [] OTHER -> "unknown"

\* Interpreter::visitLiteralExpr.
visitLiteralExpr(I, expr) ==
    CASE expr.token.type = "TOK_FALSE" -> ROk(I, BoolValue(FALSE))
      [] expr.token.type = "TOK_TRUE" -> ROk(I, BoolValue(TRUE))
      [] expr.token.type = "TOK_STRING" -> ROk(I, StringValue(expr.token.lexeme))
      [] expr.token.type \in {"TOK_INTEGER", "TOK_FLOAT"} ->
            ROk(I, stod(expr.token.lexeme))
      [] OTHER -> ROk(I, NullValue)

\* Interpreter::visitAssignExpr.
visitAssignExpr(I, expr) ==
    Then(evaluate(I, expr.value), LAMBDA value :
        CASE expr.target.k = "Variable" ->
                IF Environment_assign(value.I, value.I.environment,
                                      expr.target.name.lexeme, value.v).st = "ok"
                THEN Environment_assign(value.I, value.I.environment,
                                        expr.target.name.lexeme, value.v)
                ELSE ROk(Environment_define(value.I, value.I.environment,
                            expr.target.name.lexeme, value.v), value.v)
          [] expr.target.k = "Get" ->
                Then(evaluate(value.I, expr.target.object), LAMBDA object :
                    IF object.v.t = "inst"
                    THEN ROk([object.I EXCEPT !.instances[object.v.ref].fields =
                                Put(@, expr.target.name.lexeme, value.v)], value.v)
                    ELSE RThrow(object.I, "RuntimeError",
                                "Only instances have fields."))
          [] expr.target.k = "ArrayAccess" ->
                Then(evaluate(value.I, expr.target.array), LAMBDA arrVal :
                Then(evaluate(arrVal.I, expr.target.index), LAMBDA idxVal :
                    IF arrVal.v.t # "vec"
                    THEN RThrow(idxVal.I, "runtime_error",
                                "Cannot assign to non-array subscript.")
                    ELSE IF idxVal.v.t # "num"
                    THEN RThrow(idxVal.I, "runtime_error",
                                "Array index must be a number.")
                    ELSE IF \/ ToInt(idxVal.v) < 0
                            \/ ToInt(idxVal.v) >= Len(idxVal.I.arrays[arrVal.v.ref])
                    THEN RThrow(idxVal.I, "runtime_error",
                                "Array index out of bounds.")
                    ELSE ROk([idxVal.I EXCEPT
                                !.arrays[arrVal.v.ref][ToInt(idxVal.v) + 1] = value.v],
                             value.v)))
          [] OTHER -> RThrow(value.I, "runtime_error", "Invalid assignment target."))

\* Interpreter::visitBinaryExpr: an operator the switch does not list
\* leaves in result what the right operand left there.
visitBinaryExpr(I, expr) ==
    Then(evaluate(I, expr.left), LAMBDA left :
    Then(evaluate(left.I, expr.right), LAMBDA right :
        IF expr.op.type \in {"TOK_GREATER_THAN", "TOK_LESS_THAN", "TOK_MINUS",
                             "TOK_DIVIDE", "TOK_MULTIPLY"}
        THEN IF left.v.t = "num" /\ right.v.t = "num"
             THEN IF expr.op.type = "TOK_DIVIDE" /\ right.v.n = 0
                  THEN RThrow(right.I, "RuntimeError", "Division by zero.")
                  ELSE BinaryOp(right.I, expr.op.type, left.v, right.v)
             ELSE RThrow(right.I, "RuntimeError", "Operands must be numbers.")
        ELSE IF expr.op.type = "TOK_PLUS"
        THEN IF \/ left.v.t = "num" /\ right.v.t = "num"
                \/ left.v.t = "str" /\ right.v.t = "str"
             THEN BinaryOp(right.I, expr.op.type, left.v, right.v)
             ELSE RThrow(right.I, "RuntimeError",
                         "Operands must be two numbers or two strings.")
        ELSE IF expr.op.type = "TOK_EQUAL"
        THEN ROk(right.I, BoolValue(Interpreter_isEqual(left.v, right.v)))
        ELSE right))

\* LoxFunction::arity: params.size() || 0 is a bool.
LoxFunction_arity(I, f) ==
    IF Len(I.callables[f].declaration.params) # 0 THEN 1 ELSE 0

\* LoxFunction::call: the code of FunctionObject::call.  arguments[i]
\* beyond the vector's size is undefined behaviour: the run crashes, or
\* the parameter is bound to whatever the read yields (I.junk).
LoxFunction_call(I, f, arguments) ==
    IF Len(I.callables[f].declaration.params) > Len(arguments)
    THEN IF I.junk.t = "crash" THEN RStop(I, "ub")
         ELSE FunctionObject_call(I, f,
                arguments \o [i \in 1..(Len(I.callables[f].declaration.params)
                                            - Len(arguments)) |-> I.junk])
    ELSE FunctionObject_call(I, f, arguments)

\* LoxClass::arity is 0; LoxClass::call makes an Instance without fields.
LoxClass_call(I) ==
    ROk([I EXCEPT !.instances = Append(@, [klass |-> 0, fields |-> EmptyMap])],
        InstanceValue(Len(I.instances) + 1))

\* Interpreter::visitCallExpr.
visitCallExpr(I, expr) ==
    Then(evaluate(I, expr.callee), LAMBDA callee :
    Then(EvaluateAll(callee.I, expr.args, 1, <<>>), LAMBDA args :
        IF callee.v.t # "callable"
        THEN RThrow(args.I, "runtime_error", "Can only call functions and classes.")
        ELSE IF args.I.callables[callee.v.ref].kind # "fn"
        THEN IF Len(args.v) # 0
             THEN RThrow(args.I, "runtime_error",
                    "Expected 0 arguments but got " \o IntToString(Len(args.v)) \o ".")
             ELSE LoxClass_call(args.I)
        ELSE IF Len(args.v) # LoxFunction_arity(args.I, callee.v.ref)
        THEN RThrow(Log(args.I, [e |-> "apply", callable |-> callee.v.ref,
                                 args |-> Len(args.v), ran |-> FALSE]),
                    "runtime_error",
                    "Expected "
                        \o IntToString(LoxFunction_arity(args.I, callee.v.ref))
                        \o " arguments but got " \o IntToString(Len(args.v)) \o ".")
        ELSE LoxFunction_call(
                Log(args.I, [e |-> "apply", callable |-> callee.v.ref,
                             args |-> Len(args.v), ran |-> TRUE]),
                callee.v.ref, args.v)))

\* Interpreter::visitGetExpr and Instance::get: fields only.
visitGetExpr(I, expr) ==
    Then(evaluate(I, expr.object), LAMBDA object :
        IF object.v.t # "inst"
        THEN RThrow(object.I, "RuntimeError", "Only instances have properties.")
        ELSE IF expr.name.lexeme \in DOMAIN object.I.instances[object.v.ref].fields
        THEN ROk(object.I, object.I.instances[object.v.ref].fields[expr.name.lexeme])
        ELSE RThrow(object.I, "RuntimeError",
                    "Undefined property '" \o expr.name.lexeme \o "'."))

\* Interpreter::visitArrayAccessExpr.
visitArrayAccessExpr(I, expr) ==
    Then(evaluate(I, expr.array), LAMBDA arr :
    Then(evaluate(arr.I, expr.index), LAMBDA idx :
        IF arr.v.t # "vec"
        THEN RThrow(idx.I, "runtime_error", "Operand not an array.")
        ELSE IF idx.v.t # "num"
        THEN RThrow(idx.I, "runtime_error", "Index must be a number.")
        ELSE IF ToInt(idx.v) < 0 \/ ToInt(idx.v) >= Len(idx.I.arrays[arr.v.ref])
        THEN RThrow(idx.I, "runtime_error", "Index out of bounds.")
        ELSE ROk(idx.I, idx.I.arrays[arr.v.ref][ToInt(idx.v) + 1])))

\* Interpreter::visitArrayLitExpr: vec is allocated before the elements
\* are evaluated.
visitArrayLitExpr(I, expr) ==
    Then(EvaluateAll([I EXCEPT !.arrays = Append(@, <<>>)], expr.elements, 1, <<>>),
         LAMBDA elements :
        ROk([elements.I EXCEPT !.arrays[Len(I.arrays) + 1] = elements.v],
            [t |-> "vec", ref |-> Len(I.arrays) + 1]))

\* Interpreter::visitNewExpr: call without a check of the arity.
visitNewExpr(I, expr) ==
    Then(Environment_get(I, I.environment, expr.className.lexeme),
         LAMBDA klassVal :
        IF klassVal.v.t # "callable"
        THEN RThrow(I, "RuntimeError", "Can only instantiate classes.")
        ELSE Then(EvaluateAll(I, expr.args, 1, <<>>), LAMBDA args :
                IF args.I.callables[klassVal.v.ref].kind = "fn"
                THEN LoxFunction_call(args.I, klassVal.v.ref, args.v)
                ELSE LoxClass_call(args.I)))

\* Interpreter::visitPrintStmt.
visitPrintStmt(I, stmt) ==
    Then(evaluate(I, stmt.expr), LAMBDA val :
        ROk([val.I EXCEPT !.out = Append(@, stringify(val.I, val.v, 1))],
            NullValue))

\* Interpreter::visitClassStmt: the name is defined nil, then assigned the
\* LoxClass.
visitClassStmt(I, stmt) ==
    ROk(Environment_define(
            [I EXCEPT !.callables =
                Append(@, [kind |-> "class", name |-> stmt.name.lexeme])],
            I.environment, stmt.name.lexeme, CallableValue(Len(I.callables) + 1)),
        NullValue)

\* Interpreter::evaluate: expr->accept(*this) in interpreter.cpp, the
\* chain of dynamic_casts in tree-walker.cpp.
evaluate(I, expr) ==
    IF I.impl = "visitor"
    THEN CASE expr.k = "Literal" -> visitLiteralExpr(I, expr)
           [] expr.k = "Variable" -> evaluateVariable(I, expr)
           [] expr.k = "Assign" -> visitAssignExpr(I, expr)
           [] expr.k = "Binary" -> visitBinaryExpr(I, expr)
           [] expr.k = "Call" -> visitCallExpr(I, expr)
           [] expr.k = "Get" -> visitGetExpr(I, expr)
           [] expr.k = "ArrayAccess" -> visitArrayAccessExpr(I, expr)
           [] expr.k = "ArrayLit" -> visitArrayLitExpr(I, expr)
           [] expr.k = "New" -> visitNewExpr(I, expr)
           [] OTHER -> ROk(I, NullValue)
    ELSE CASE expr.k = "Literal" -> evaluateLiteral(I, expr)
           [] expr.k = "Variable" -> evaluateVariable(I, expr)
           [] expr.k = "Assign" -> evaluateAssign(I, expr)
           [] expr.k = "Binary" -> evaluateBinary(I, expr)
           [] expr.k = "Call" -> evaluateCall(I, expr)
           [] expr.k = "Get" -> evaluateGet(I, expr)
           [] expr.k = "ArrayAccess" -> evaluateArrayAccess(I, expr)
           [] expr.k = "ArrayLit" -> evaluateArrayLit(I, expr)
           [] expr.k = "New" -> evaluateNew(I, expr)
           [] OTHER -> ROk(I, NullValue)

RECURSIVE ReadsReleased(_, _)
\* Value::toString of v reads klass->name of a deleted ClassObject.
ReadsReleased(I, v) ==
    \/ v.t = "inst" /\ Released(I, I.instances[v.ref].klass)
    \/ v.t = "arr" /\ \E i \in 1..Len(v.elems) : ReadsReleased(I, v.elems[i])

\* Interpreter::executePrintStmt: one line on std::cout.  The name of a
\* deleted class is undefined behaviour: a crash, or the bytes of the name.
executePrintStmt(I, stmt) ==
    Then(evaluate(I, stmt.expr), LAMBDA value :
        IF ReadsReleased(value.I, value.v) /\ value.I.junk.t = "crash"
        THEN RStop(value.I, "ub")
        ELSE ROk([value.I EXCEPT
                    !.out = Append(@, Value_toString(value.I, value.v))],
                 NullValue))

\* throw ReturnException(value).
ThrowReturn(I, value) ==
    [RStop(Log(I, [e |-> "return", frame |-> I.environment, v |-> value]),
           "return") EXCEPT !.v = value]

\* Interpreter::executeReturnStmt.
executeReturnStmt(I, stmt) ==
    IF stmt.value.k = "null" THEN ThrowReturn(I, NullValue)
    ELSE Then(evaluate(I, stmt.value), LAMBDA value :
            ThrowReturn(value.I, value.v))

\* Interpreter::executeIfStmt.
executeIfStmt(I, stmt) ==
    Then(evaluate(I, stmt.condition), LAMBDA condition :
        IF isTruthy(condition.I, condition.v)
        THEN ExecuteAll(condition.I, stmt.thenBranch, 1)
        ELSE ExecuteAll(condition.I, stmt.elseBranch, 1))

\* Interpreter::executeWhileStmt.
executeWhileStmt(I, stmt) ==
    Then(evaluate(I, stmt.condition), LAMBDA condition :
        IF ~isTruthy(condition.I, condition.v) THEN ROk(condition.I, NullValue)
        ELSE IF condition.I.fuel = 0 THEN RStop(condition.I, "div")
        ELSE Then(ExecuteAll([condition.I EXCEPT !.fuel = @ - 1], stmt.body, 1),
                  LAMBDA body : executeWhileStmt(body.I, stmt)))

\* A function object that captures a copy of the defining frame.
NewFunctionObject_Snapshot(I, decl, closure) ==
    [I EXCEPT !.envs = Append(@, I.envs[closure]),
              !.callables = Append(@, [kind |-> "fn", declaration |-> decl,
                                       closure |-> Len(I.envs) + 1])]

\* std::make_shared<FunctionObject>(decl, closure).
NewFunctionObject(I, decl, closure) ==
    [I EXCEPT !.callables =
        Append(@, [kind |-> "fn", declaration |-> decl, closure |-> closure])]

\* Interpreter::executeFunctionStmt.
executeFunctionStmt(I, stmt) ==
    ROk(Environment_define(NewFunctionObject(I, stmt, I.environment),
                           I.environment, stmt.name.lexeme,
                           CallableValue(Len(I.callables) + 1)),
        NullValue)

\* The superclass lookup of executeClassStmt: v is the ClassObject.
Superclass(I, stmt) ==
    Then(Environment_get(I, I.environment, stmt.superclass.lexeme),
         LAMBDA superValue :
        IF superValue.v.t # "callable"
        THEN RThrow(I, "runtime_error", "Superclass must be a class.")
        ELSE IF I.callables[superValue.v.ref].kind # "class"
        THEN RThrow(I, "runtime_error", "Superclass must be a class.")
        ELSE ROk(I, superValue.v.ref))

RECURSIVE CollectMethods(_, _, _, _)
\* The method loop of executeClassStmt: one FunctionObject per method.
CollectMethods(I, methods, classEnv, count) ==
    IF count = 0 THEN I
    ELSE NewFunctionObject(CollectMethods(I, methods, classEnv, count - 1),
                           methods[count], classEnv)

\* The rest of executeClassStmt, superclass being the ClassObject or 0.
DefineClass(I, stmt, superclass) ==
    LET classEnv == IF superclass # 0 THEN Len(I.envs) + 1 ELSE I.environment
        I1 == IF superclass # 0
              THEN Environment_define(NewEnvironment(I, I.environment),
                        classEnv, "super", CallableValue(superclass))
              ELSE I
        I2 == CollectMethods(I1, stmt.methods, classEnv, Len(stmt.methods))
        methods ==
            [name \in {stmt.methods[i].name.lexeme : i \in 1..Len(stmt.methods)} |->
                Len(I.callables)
                    + (CHOOSE i \in 1..Len(stmt.methods) :
                          /\ stmt.methods[i].name.lexeme = name
                          /\ \A j \in (i + 1)..Len(stmt.methods) :
                                stmt.methods[j].name.lexeme # name)]
        klass == Len(I2.callables) + 1
        I3 == [I2 EXCEPT !.callables =
                  Append(@, [kind |-> "class", name |-> stmt.name.lexeme,
                             superclass |-> superclass, methods |-> methods])]
    IN  ROk(Environment_define(I3, I.environment, stmt.name.lexeme,
                               CallableValue(klass)),
            NullValue)

\* Interpreter::executeClassStmt.
executeClassStmt(I, stmt) ==
    IF stmt.superclass.type # "TOK_EOF"
    THEN Then(Superclass(I, stmt), LAMBDA superclass :
            DefineClass(I, stmt, superclass.v))
    ELSE DefineClass(I, stmt, 0)

\* What Interpreter::execute dispatches to.
ExecuteStmt(I, stmt) ==
    CASE stmt.k = "ExpressionStmt" -> evaluate(I, stmt.expr)
      [] stmt.k = "PrintStmt" ->
            IF I.impl = "visitor" THEN visitPrintStmt(I, stmt)
            ELSE executePrintStmt(I, stmt)
      [] stmt.k = "ReturnStmt" -> executeReturnStmt(I, stmt)
      [] stmt.k = "IfStmt" -> executeIfStmt(I, stmt)
      [] stmt.k = "WhileStmt" -> executeWhileStmt(I, stmt)
      [] stmt.k = "FunctionStmt" -> executeFunctionStmt(I, stmt)
      [] stmt.k = "ClassStmt" ->
            IF I.impl = "visitor" THEN visitClassStmt(I, stmt)
            ELSE executeClassStmt(I, stmt)
      [] OTHER -> ROk(I, NullValue)

\* Interpreter::execute of the tree-walker.
execute(I, stmt) ==
    ExecuteStmt(Log(I, [e |-> "stmt", frame |-> I.environment, k |-> stmt.k]),
                stmt)

(***************************************************************************)
(* Interpreter::interpret on the statements the parser yields for a        *)
(* program.  One step of the run is one iteration of the loop of           *)
(* interpret: one top-level statement executed to its end.                 *)
(***************************************************************************)
MaxLines == 2

RECURSIVE scanTokens(_, _, _)
\* Lexer::scanTokens: n iterations of its loop from lexer state lx, the
\* push of End-of-input being the last; nothing more happens after an
\* error or after End-of-input.  The iterations are split in halves.
scanTokens(src, lx, n) ==
    IF n > 1
    THEN CHOOSE y \in {scanTokens(src, half, n - (n \div 2)) :
                        half \in {scanTokens(src, lx, n \div 2)}} : TRUE
    ELSE IF lx.error # NoError THEN lx
    ELSE IF lx.tokens # <<>> /\ lx.tokens[Len(lx.tokens)].type = "TOK_EOF" THEN lx
    ELSE IF Lexer_isAtEnd(src, lx) THEN scanTokensEnd(lx)
    ELSE scanTokensStep(src, lx)

RECURSIVE parse(_, _)
\* Parser::parse from parser state p to the end; a declaration that never
\* returns leaves the statements empty and current at -1.
parse(p, diags) ==
    IF Parser_isAtEnd(p.tokens, p.current) THEN [parser |-> p, reports |-> diags]
    ELSE CHOOSE y \in
            {IF r.st = "div"
             THEN [parser |-> [p EXCEPT !.current = -1], reports |-> diags]
             ELSE CHOOSE z \in
                    {parse(q, IF r.st = "err" THEN Append(diags, r.diag) ELSE diags) :
                        q \in {[p EXCEPT !.current = r.cur,
                                         !.statements = Append(@, r.node)]}} : TRUE
                : r \in {declaration(p.tokens, p.current)}} : TRUE

\* Parser::parse on a token vector: the statements, and whether no
\* diagnostic was reported and parse returned.
ParsedTokens(lx, tokens) ==
    CHOOSE z \in
        {[lexer |-> lx, parser |-> pr.parser,
          ok |-> pr.reports = <<>> /\ pr.parser.current # -1] :
            pr \in {parse(NewParser(tokens), <<>>)}} : TRUE

\* The statements of a program text, when it lexes and parses without a
\* diagnostic; otherwise the empty program.
Parsed(src) ==
    CHOOSE y \in
        {IF lx.error # NoError
         THEN [lexer |-> lx, parser |-> NewParser(<<>>), ok |-> FALSE]
         ELSE ParsedTokens(lx, lx.tokens)
            : lx \in {scanTokens(src, NewLexer, Len(src) + 1)}} : TRUE

\* A token vector in which the word INHERITS has the kind TOK_INHERITS of
\* enum TokenType, the kind Parser::classDeclaration matches.  The keyword
\* map of the Lexer has no entry for it, so these vectors reach a Parser
\* only from a caller that tags the word itself.
WithInherits(tokens) ==
    [i \in 1..Len(tokens) |->
        IF tokens[i].type = "TOK_IDENTIFIER" /\ tokens[i].lexeme = "INHERITS"
        THEN [tokens[i] EXCEPT !.type = "TOK_INHERITS"]
        ELSE tokens[i]]

\* The statements Parser::parse yields for a class hierarchy.
ParsedClasses(src) ==
    CHOOSE y \in
        {ParsedTokens(lx, WithInherits(lx.tokens))
            : lx \in {scanTokens(src, NewLexer, Len(src) + 1)}} : TRUE

\* Whole programs.
AliasProgram ==
    "a = [1, 2, 3]\nb = a\nb[0] = 9\nPRINT(a)\nPRINT(b)"

PointProgram ==
    "CLASS Point ATTRIBUTES x y METHODS: FUNCTION constructor(a, b) this.x = a this.y = b END constructor FUNCTION sum() RETURN this.x + this.y END sum END Point\np = NEW Point(3, 4)\nPRINT(p.sum())"

ReturnProgram ==
    "FUNCTION f(a)\nWHILE TRUE\nIF a THEN\nRETURN 5\nEND IF\nx = 1\nEND WHILE\nPRINT(0)\nEND f\ny = f(TRUE)\nPRINT(y)"

BareReturnProgram ==
    "FUNCTION g() x = 1 END g\nPRINT(g())\nFUNCTION h() IF TRUE THEN RETURN END IF PRINT(1) END h\nPRINT(h())"

ScopeProgram ==
    "FUNCTION f() RETURN x END f\nFUNCTION g() x = 1 RETURN f() END g\nPRINT(g())"

ClosureProgram ==
    "FUNCTION f() RETURN x END f\nx = 5\nPRINT(f())\nx = 6\nPRINT(f())"

GlobalProgram ==
    "g = 1\nFUNCTION f() g = 2 h = 3 END f\nf()\nPRINT(g)\nPRINT(h)"

ConstructorProgram ==
    "CLASS P METHODS FUNCTION constructor(v) this.v = v RETURN 5 END constructor END P\np = NEW P(1)\nq = NEW P(2)\nPRINT(p.v)\nPRINT(q.v)\nq.v = 3\nq.w = 4\nPRINT(p.v)\nPRINT(p.w)"

ArgumentOrderProgram ==
    "x = 0\nFUNCTION f(a, b) RETURN a END f\nf(x = 1, x = 2)\nn = 1\nn(y = 2)"

MembershipProgram ==
    "IF 2 IN [1, 2, 3] THEN PRINT(\"yes\") ELSE PRINT(\"no\") END IF\nPRINT(8 IN [1, 2])\nPRINT(1 IN [])\nPRINT(1 IN 1)"

EqualityProgram ==
    "a = [1]\nb = a\nFUNCTION f() RETURN 1 END f\nCLASS K END K\np = NEW K()\nq = NEW K()\nPRINT(1 == 1)\nPRINT(1 == \"1\")\nPRINT(p == q)\nPRINT(f == f)\nPRINT(p == p)\nPRINT(a == a)\nPRINT(a == b)"

TruthProgram ==
    "FUNCTION g() RETURN END g\nn = g()\ns = \"\"\nx = 2\nWHILE x x = x - 1 END WHILE\nPRINT(x)\nIF \"\" THEN PRINT(\"then\") ELSE PRINT(\"else\") END IF\nIF [] THEN PRINT(\"array\") END IF"

DivisionProgram ==
    "x = 6\ny = x / 4\nPRINT(y)\nz = 2 - 2\nw = 5\nw = x / z\nPRINT(w)"

LifetimeProgram ==
    "CLASS A METHODS FUNCTION m() RETURN 1 END m END A\np = NEW A()\nB = A\nA = 0\nPRINT(p.m())\nB = 0\nPRINT(p.m())"

RedeclareProgram ==
    "CLASS A METHODS FUNCTION m() RETURN 1 END m END A\np = NEW A()\nCLASS A METHODS FUNCTION m() RETURN 2 END m END A\nPRINT(p.m())"

IntegerProgram ==
    "PRINT(2147483647)\nPRINT(4294967303)\nPRINT(7)"

ComparisonProgram ==
    "PRINT(1 < 2)\nPRINT(3 > 2)\nPRINT(1 <= 2)\nPRINT(2 >= 3)\nPRINT(1 <= \"a\")"

NewArityProgram ==
    "CLASS P METHODS FUNCTION constructor(v) this.v = v END constructor END P\np = NEW P(1, 2)\nPRINT(p.v)\nq = NEW P()\nPRINT(7)"

ArityProgram ==
    "FUNCTION f(a, b) RETURN a + b END f\nPRINT(f(1, 2))"

Scenarios ==
    {AliasProgram,
     PointProgram,
     ReturnProgram,
     BareReturnProgram,
     ScopeProgram,
     ClosureProgram,
     GlobalProgram,
     ArityProgram,
     MembershipProgram,
     ComparisonProgram,
     IntegerProgram,
     NewArityProgram,
     LifetimeProgram,
     RedeclareProgram,
     DivisionProgram,
     EqualityProgram,
     TruthProgram,
     ArgumentOrderProgram,
     ConstructorProgram,
     "FUNCTION f(a, b) RETURN a END f\nPRINT(f(1))",
     "FUNCTION z() RETURN 1 END z\nPRINT(z())\nPRINT(z(1))",
     "FUNCTION u(a) RETURN a END u\nPRINT(u(7))\nPRINT(u())",
     "FUNCTION r(n) IF n < 1 THEN RETURN 0 END IF RETURN n + r(n - 1) END r\nPRINT(r(3))\nPRINT(r(9))",
     "CLASS A METHODS FUNCTION m() RETURN 1 END m END A\np = NEW A()\np.v = 2\nPRINT(p.v)\nPRINT(p.m())\nPRINT(p)\nPRINT(A)\nPRINT(p.m)\nq = NEW A(1)",
     "i = 0\nWHILE i < 3 i = i + 1 END WHILE\nPRINT(i)\nPRINT(7 / 2)\nPRINT(\"a\" + \"b\")\nPRINT(1 IN [1, 2])\nPRINT([1, [2, TRUE]][1][0] == 2)\nPRINT(1 / 0)",
     "WHILE TRUE x = 1 END WHILE",
     "RETURN 1\nPRINT(2)"}

\* The top-level lines short programs are made of.
Lines ==
    {"x = 1", "x = x + 1", "a = [1, 2]", "b = a", "b[0] = 9", "PRINT(b)",
     "FUNCTION f() RETURN x END f", "PRINT(f())",
     "FUNCTION g(p) x = p y = p RETURN f() END g", "PRINT(g(2))",
     "FUNCTION k(p, q) IF p THEN RETURN q END IF END k", "PRINT(k(TRUE, x))"}

RECURSIVE LinesUpTo(_)
LinesUpTo(n) ==
    IF n = 0 THEN {""}
    ELSE LET shorter == LinesUpTo(n - 1)
         IN  shorter \cup {s \o l \o "\n" : s \in shorter, l \in Lines}

Programs == Scenarios \cup LinesUpTo(MaxLines)

\* A chain C -> B -> A in which B overrides m of A, and a class D outside it.
InheritProgram ==
    "CLASS A METHODS FUNCTION m() RETURN 1 END m FUNCTION n() RETURN 2 END n END A\nCLASS B INHERITS A METHODS FUNCTION m() RETURN 3 END m END B\nCLASS C INHERITS B METHODS FUNCTION k() RETURN 4 END k END C\nCLASS D METHODS FUNCTION q() RETURN 5 END q FUNCTION m() RETURN 6 END m END D\nc = NEW C()\nPRINT(c.m())\nPRINT(c.n())\nPRINT(c.k())\nb = NEW B()\nPRINT(b.m())\nPRINT(b.k())"

\* Class hierarchies.
ClassPrograms ==
    {InheritProgram,
     "CLASS A METHODS FUNCTION constructor(v) this.v = v END constructor END A\nCLASS B INHERITS A END B\nb = NEW B(1)\nPRINT(b.v)\nPRINT(b.q)",
     "x = 1\nCLASS B INHERITS x END B",
     "CLASS B INHERITS A END B"}

\* What a read beyond the end of a vector, or of a deleted object, can
\* yield: a crash, or a value.
Junk == {[t |-> "crash"], NullValue, NumberValue(7, 1)}

InitInterp ==
    /\ source \in Programs \cup ClassPrograms
    /\ \E parsed \in {IF source \in ClassPrograms THEN ParsedClasses(source)
                       ELSE Parsed(source)} :
            /\ parsed.ok
            /\ lexer = parsed.lexer
            /\ parser = parsed.parser
    /\ stage = "Runtime"
    /\ pc = "run"
    /\ exitCode = -1
    /\ reports = <<>>
    /\ interp \in {[NewInterpreter(impl) EXCEPT !.junk = j] :
                        impl \in {"tree-walker", "visitor"}, j \in Junk}

\* One iteration of the loop of interpret.  A statement that ends with an
\* exception ends interpret: the tree-walker reports it and
\* ErrorReporter::report throws; the visitor returns after a RuntimeError
\* (printed on std::cerr) and lets any other exception through; what()
\* of a ReturnException is "std::exception".  "cut" is a run that spent
\* MaxFuel, "crashed" one that read beyond a vector and crashed.
Execute ==
    /\ pc = "run"
    /\ interp.ip <= Len(parser.statements)
    /\ \E r \in {execute(interp, parser.statements[interp.ip])} :
           /\ interp' = IF r.st = "ok" THEN [r.I EXCEPT !.ip = @ + 1] ELSE r.I
           /\ pc' = CASE r.st = "ok" -> "run"
                      [] r.st = "div" -> "cut"
                      [] r.st = "ub" -> "crashed"
                      [] r.st = "err" /\ r.exc = "RuntimeError" -> "returned"
                      [] OTHER -> "threw"
           /\ reports' =
                IF \/ r.st \in {"err", "return"} /\ interp.impl = "tree-walker"
                   \/ r.st = "err" /\ r.exc = "RuntimeError"
                THEN Append(reports,
                        [type |-> "Runtime", line |-> 0,
                         message |-> IF r.st = "return" THEN "std::exception"
                                     ELSE r.msg])
                ELSE reports
    /\ UNCHANGED <<source, lexer, stage, exitCode, parser>>

\* interpret leaves its loop and returns.
InterpretEnd ==
    /\ pc = "run"
    /\ interp.ip > Len(parser.statements)
    /\ pc' = "returned"
    /\ UNCHANGED <<source, lexer, stage, exitCode, reports, parser, interp>>

NextInterp == Execute \/ InterpretEnd

SpecInterp == InitInterp /\ [][NextInterp]_vars

(***************************************************************************)
(* Properties of the lexer and of the pipeline, checked under Spec.        *)
(***************************************************************************)
\* The keyword kinds of enum TokenType, by their upper-case spelling.
KeywordSpellings ==
    {"CLASS", "INHERITS", "ATTRIBUTES", "METHODS", "FUNCTION", "RETURN",
     "NEW", "END", "IF", "THEN", "ELSE", "WHILE", "FOR", "IN", "PRINT",
     "TRUE", "FALSE"}

\* The 1-based line on which the character at offset pos stands.
LineOf(src, pos) ==
    1 + Cardinality({i \in 0..(pos - 1) : Ch(src, i) = "\n"})

\* C9: every keyword kind of the token set is produced by the lexer when
\* its upper-case spelling appears as a whole identifier, and so
\* "CLASS B INHERITS A END B" parses to a class statement whose superclass
\* is A.
C9_EveryKeywordKindIsLexed ==
    /\ \A i \in 1..Len(lexer.tokens) :
          LET t == lexer.tokens[i]
          IN  (t.type # "TOK_STRING" /\ t.lexeme \in KeywordSpellings)
                  => t.type = "TOK_" \o t.lexeme
    /\ (source = "CLASS B INHERITS A END B" /\ pc = "done")
          => /\ reports = <<>>
             /\ Len(parser.statements) = 1
             /\ parser.statements[1].k = "ClassStmt"
             /\ parser.statements[1].superclass.lexeme = "A"

\* C10: every token the lexer emits carries the position of its first
\* character: its column is the distance from the start of the line to the
\* first character and its line is the line on which the token starts.
C10_TokenPositionIsFirstChar ==
    [][(/\ Len(lexer'.tokens) > Len(lexer.tokens)
        /\ lexer'.tokens[Len(lexer'.tokens)].type # "TOK_EOF")
          => LET t == lexer'.tokens[Len(lexer'.tokens)]
             IN  /\ t.column = lexer'.start - LineStartOf(source, lexer'.start)
                 /\ t.line = LineOf(source, lexer'.start)]_vars

\* C3: once a diagnostic has been reported the run is over and runFile has
\* returned 1; in particular runFile returns 0 only when none was reported.
C3_DiagnosticAbortsRun ==
    reports # <<>> => (pc = "done" /\ exitCode = 1)

RECURSIVE Shape(_)
RECURSIVE ShapeList(_, _)
\* An expression tree written out with every Binary and Assign node in
\* parentheses.
Shape(node) ==
    CASE node.k = "Variable" -> node.name.lexeme
      [] node.k = "Literal" -> node.token.lexeme
      [] node.k = "Binary" ->
            "(" \o Shape(node.left) \o node.op.lexeme \o Shape(node.right) \o ")"
      [] node.k = "Assign" ->
            "(" \o Shape(node.target) \o "=" \o Shape(node.value) \o ")"
      [] node.k = "ArrayAccess" ->
            Shape(node.array) \o "[" \o Shape(node.index) \o "]"
      [] node.k = "Get" -> Shape(node.object) \o "." \o node.name.lexeme
      [] node.k = "Call" ->
            Shape(node.callee) \o "(" \o ShapeList(node.args, 1) \o ")"
      [] OTHER -> "?"

\* The expressions of a list from the i-th on, separated by commas.
ShapeList(nodes, i) ==
    IF i > Len(nodes) THEN ""
    ELSE Shape(nodes[i]) \o (IF i < Len(nodes) THEN "," ELSE "")
            \o ShapeList(nodes, i + 1)

\* Expression statements and the grouping the grammar gives them.
Groupings ==
    {<<"a + b * c", "(a+(b*c))">>,
     <<"a * b + c", "((a*b)+c)">>,
     <<"a - b - c", "((a-b)-c)">>,
     <<"a / b * c", "((a/b)*c)">>,
     <<"a = b = c", "(a=(b=c))">>,
     <<"a == b < c", "(a==(b<c))">>,
     <<"a < b == c", "((a<b)==c)">>,
     <<"a < b - c", "(a<(b-c))">>,
     <<"a == b == c", "((a==b)==c)">>,
     <<"a < b < c", "((a<b)<c)">>,
     <<"a = b == c + d * e", "(a=(b==(c+(d*e))))">>,
     <<"a * b + c < d == e", "((((a*b)+c)<d)==e)">>,
     <<"a - b + c * d / e - f", "(((a-b)+((c*d)/e))-f)">>,
     <<"a IN b + c", "(aIN(b+c))">>}

\* C15: the parser groups binary operators by the precedence Equality <
\* Comparison < Term < Factor, operators of equal precedence left to
\* right, and assignment right to left: `a + b * c` is
\* Binary(a, +, Binary(b, *, c)), `a - b - c` is
\* Binary(Binary(a, -, b), -, c) and `a = b = c` is Assign(a, Assign(b, c)).
C15_PrecedenceAndAssociativity ==
    \A g \in Groupings :
        (source = g[1] /\ pc = "done")
            => /\ reports = <<>>
               /\ Len(parser.statements) = 1
               /\ parser.statements[1].k = "ExpressionStmt"
               /\ Shape(parser.statements[1].expr) = g[2]

\* The character at offset pos opens a string that is not terminated: it
\* is a quote, and the same quote does not occur again in the source.
OpensUnterminatedString(src, pos) ==
    /\ Ch(src, pos) \in {"\"", "'"}
    /\ \A j \in (pos + 1)..(Len(src) - 1) : Ch(src, j) # Ch(src, pos)

\* The 0-based column at which the character at offset pos stands.
ColumnOf(src, pos) ==
    Cardinality({i \in 0..(pos - 1) :
                    \A j \in i..(pos - 1) : Ch(src, j) # "\n"})

\* C19: when the lexer comes to a quote that opens a string and the same
\* quote does not occur again before the end of the input, it reports
\* exactly one error, a Syntax error "Unterminated string." whose line and
\* column are those of the opening quote, also when the text after the
\* quote spans several lines, and the run ends with no token list: the
\* End-of-input token is never pushed and the parser receives no tokens.
C19_UnterminatedStringReportedAtItsQuote ==
    [][(/\ pc = "scan"
        /\ ~Lexer_isAtEnd(source, lexer)
        /\ OpensUnterminatedString(source, lexer.current))
          => /\ Len(reports') = 1
             /\ reports'[1].type = "Syntax"
             /\ reports'[1].message = "Unterminated string."
             /\ reports'[1].line = LineOf(source, lexer.current)
             /\ reports'[1].column = ColumnOf(source, lexer.current)
             /\ pc' = "done"
             /\ exitCode' = 1
             /\ ~lexer'.done
             /\ parser' = NewParser(<<>>)]_vars

\* An unterminated string that spans several lines and does not open on the
\* first line, at a column other than the first, has been reported.
C19_Witness ==
    /\ pc = "done"
    /\ OpensUnterminatedString(source, lexer.start)
    /\ \E j \in (lexer.start + 1)..(Len(source) - 1) : Ch(source, j) = "\n"
    /\ LineOf(source, lexer.start) > 1
    /\ ColumnOf(source, lexer.start) > 0
    /\ Len(reports) = 1
    /\ reports[1].message = "Unterminated string."

RECURSIVE DigitsEnd(_, _)
\* The offset after the run of digits that starts at offset pos.
DigitsEnd(src, pos) ==
    IF isdigit(Ch(src, pos)) THEN DigitsEnd(src, pos + 1) ELSE pos

\* The offset after the last digit run of the numeric literal that starts
\* at offset pos: after the fractional digits when a point and a digit
\* follow the integer digits, after the integer digits otherwise.
LiteralEnd(src, pos) ==
    LET p == DigitsEnd(src, pos)
    IN  IF Ch(src, p) = "." /\ isdigit(Ch(src, p + 1))
        THEN DigitsEnd(src, p + 1) ELSE p

\* C20: when the lexer scans a numeric literal and the character right
\* after its last digit run is alphabetic, after the integer digits or
\* after the fractional digits of a float, it reports the Syntax error
\* "Identifier starts with number." and emits no token for that text,
\* neither a number nor an identifier.
C20_NumberRunningIntoALetterIsAnError ==
    [][(/\ pc = "scan"
        /\ ~Lexer_isAtEnd(source, lexer)
        /\ isdigit(Ch(source, lexer.current))
        /\ isalpha(Ch(source, LiteralEnd(source, lexer.current))))
          => /\ lexer'.tokens = lexer.tokens
             /\ Len(reports') = 1
             /\ reports'[1].type = "Syntax"
             /\ reports'[1].message = "Identifier starts with number."
             /\ pc' = "done"]_vars

\* C22: Parser::parse terminates on every token sequence that ends with
\* End-of-input: it never exhausts the call stack, and every iteration of
\* its loop consumes a token or reports a Syntax error, also when the
\* input ends in the middle of an expression, the last token before
\* End-of-input being '-', '(' or '['.
C22_ParseTerminates ==
    [][pc = "parse"
        => /\ pc' # "crashed"
           /\ \/ parser'.current > parser.current
              \/ Len(reports') > Len(reports)
              \/ pc' = "done"]_vars

\* The token kinds that start a top-level construct.
Starters ==
    {"TOK_CLASS", "TOK_FUNCTION", "TOK_IF", "TOK_WHILE", "TOK_PRINT",
     "TOK_RETURN"}

\* With `current` = pos the parser is at End-of-input, or right after an
\* END, or right before a token that starts a top-level construct.
IsSyncPoint(toks, pos) ==
    \/ toks[pos + 1].type = "TOK_EOF"
    \/ toks[pos].type = "TOK_END"
    \/ toks[pos + 1].type \in Starters

\* C26: after a parse error in a declaration, synchronize discards one
\* token unconditionally and then further tokens until the parser is right
\* after the first END it has consumed, or right before the first CLASS,
\* FUNCTION, IF, WHILE, PRINT or RETURN, or at End-of-input; the
\* declaration leaves no statement and parsing resumes from that
\* position.
C26_SynchronizeStopsAtABoundary ==
    [][(pc = "parse" /\ Len(reports') > Len(reports))
          => LET toks == parser.tokens
                 from == DeclarationTry(toks, parser.current).cur
                 to == parser'.current
             IN  /\ pc' = "parse"
                 /\ parser'.statements = Append(parser.statements, NullNode)
                 /\ IF toks[from + 1].type = "TOK_EOF" THEN to = from
                    ELSE /\ to > from
                         /\ IsSyncPoint(toks, to)
                         /\ \A pos \in (from + 1)..(to - 1) :
                                ~IsSyncPoint(toks, pos)]_vars

\* After a parse error in a parameter list the parser skipped several
\* tokens, resumed before the RETURN and parsed it.
C26_Witness ==
    /\ source = "FUNCTION f( x = 1 RETURN 2 END f"
    /\ pc = "parse"
    /\ Len(reports) = 1
    /\ Len(parser.statements) = 2
    /\ parser.statements[1] = NullNode
    /\ parser.statements[2].k = "ReturnStmt"
    /\ parser.tokens[parser.current + 1].type = "TOK_END"

\* Expression statements with a leading '-' and the grouping the grammar
\* gives them, the negation of x being (0-x).
Negations ==
    {<<"-a", "(0-a)">>,
     <<"-a[i]", "(0-a[i])">>,
     <<"-f(x)", "(0-f(x))">>,
     <<"-p.x", "(0-p.x)">>,
     <<"-a * b", "((0-a)*b)">>,
     <<"-a + b", "((0-a)+b)">>,
     <<"b - -a", "(b-(0-a))">>,
     <<"-a.b(c)[d] * e", "((0-a.b(c)[d])*e)">>}

\* C28: a leading '-' negates the whole postfix expression that follows
\* it and binds tighter than every binary operator: `-a[i]`, `-f(x)` and
\* `-p.x` parse as Binary(Literal 0, -, a[i]), Binary(Literal 0, -, f(x))
\* and Binary(Literal 0, -, p.x), and `-a * b` parses as
\* Binary(Binary(Literal 0, -, a), *, b).
C28_NegationTakesThePostfixExpression ==
    \A g \in Negations :
        (source = g[1] /\ pc = "done")
            => /\ reports = <<>>
               /\ Len(parser.statements) = 1
               /\ parser.statements[1].k = "ExpressionStmt"
               /\ Shape(parser.statements[1].expr) = g[2]

(***************************************************************************)
(* Properties of the evaluators, checked under SpecInterp.                 *)
(***************************************************************************)
\* The elements of an array value, however the evaluator holds it.
ElementsOf(I, v) ==
    IF v.t = "vec" THEN I.arrays[v.ref] ELSE IF v.t = "arr" THEN v.elems ELSE <<>>

\* The display form the evaluator that runs prints for v.
Display(I, v) ==
    IF I.impl = "visitor" THEN stringify(I, v, 1) ELSE Value_toString(I, v)

\* The statement interpret is about to execute is `y[i] = v` with y a
\* global bound to an array, i an integer literal within it and v an
\* integer literal.
IsElementAssignment ==
    /\ pc = "run"
    /\ interp.ip <= Len(parser.statements)
    /\ LET stmt == parser.statements[interp.ip]
       IN  /\ stmt.k = "ExpressionStmt"
           /\ stmt.expr.k = "Assign"
           /\ stmt.expr.target.k = "ArrayAccess"
           /\ stmt.expr.target.array.k = "Variable"
           /\ stmt.expr.target.index.k = "Literal"
           /\ stmt.expr.target.index.token.type = "TOK_INTEGER"
           /\ stmt.expr.value.k = "Literal"
           /\ stmt.expr.value.token.type = "TOK_INTEGER"
           /\ stmt.expr.target.array.name.lexeme \in DOMAIN interp.envs[1].values
           /\ ToInt(stod(stmt.expr.target.index.token.lexeme))
                < Len(ElementsOf(interp,
                        interp.envs[1].values[stmt.expr.target.array.name.lexeme]))

\* C1: arrays are shared by reference.  When `y[i] = v` executes, every
\* name bound to the array y is bound to (y itself and every alias made by
\* an assignment of the one name to the other) evaluates afterwards to an
\* array whose element i is v.
C1_ElementAssignmentSeenByEveryAlias ==
    [][IsElementAssignment =>
        LET target == parser.statements[interp.ip].expr.target
            y == target.array.name.lexeme
            i == ToInt(stod(target.index.token.lexeme))
            v == stod(parser.statements[interp.ip].expr.value.token.lexeme)
        IN  \A x \in DOMAIN interp.envs[1].values :
                interp.envs[1].values[x] = interp.envs[1].values[y]
                    => /\ pc' = "run"
                       /\ ElementsOf(interp', interp'.envs[1].values[x])[i + 1] = v
      ]_vars

\* C2: a method obtained from an instance by property access and then
\* called reads the instance's fields through `this`: the Point program
\* (constructor sets this.x and this.y, sum returns this.x + this.y,
\* PRINT(p.sum()) on NEW Point(3, 4)) ends without a Runtime error, having
\* printed 7.
C2_MethodReadsFieldsThroughThis ==
    (source = PointProgram /\ pc # "run")
        => /\ pc = "returned"
           /\ reports = <<>>
           /\ interp.out = <<"7">>

\* Frame f is the frame of an invocation of a function.
IsFunctionFrame(f) ==
    \E j \in 1..Len(interp.trace) :
        interp.trace[j].e = "enter" /\ interp.trace[j].frame = f

\* C4: when a RETURN executes in a function body, at any depth of IF and
\* WHILE, no further statement of that invocation executes and the call
\* yields the returned value (Null for a RETURN without expression); a
\* body that completes without RETURN makes the call yield Null; the
\* caller continues after the call, in its own frame.
C4_ReturnUnwindsToTheCall ==
    /\ \A i \in 1..Len(interp.trace) :
          LET ev == interp.trace[i]
          IN  /\ (ev.e = "return" /\ IsFunctionFrame(ev.frame))
                    => /\ \A j \in (i + 1)..Len(interp.trace) :
                            interp.trace[j].e = "stmt"
                                => interp.trace[j].frame # ev.frame
                       /\ i < Len(interp.trace)
                       /\ interp.trace[i + 1].e = "exit"
                       /\ interp.trace[i + 1].frame = ev.frame
                       /\ interp.trace[i + 1].v = ev.v
              /\ ev.e = "exit"
                    => /\ \E j \in 1..(i - 1) :
                            /\ interp.trace[j].e = "enter"
                            /\ interp.trace[j].frame = ev.frame
                            /\ interp.trace[j].caller = ev.env
                       /\ interp.trace[i - 1].e # "return" => ev.v = NullValue
    /\ (source = ReturnProgram /\ pc = "returned")
          => interp.out = <<"5">>
    /\ (source = BareReturnProgram /\ pc = "returned")
          => /\ interp.out \in {<<"null", "null">>, <<"nil", "nil">>}
             /\ \A i \in 1..Len(interp.trace) :
                    interp.trace[i].e \in {"return", "exit"}
                        => interp.trace[i].v = NullValue

\* A RETURN nested in IF in WHILE has ended an invocation, its value 5
\* came out of the call, and the caller has executed its next statement.
C4_Witness ==
    /\ source = ReturnProgram
    /\ pc = "returned"
    /\ \E i \in 1..Len(interp.trace) :
          /\ interp.trace[i].e = "return"
          /\ interp.trace[i].v = NumberValue(5, 1)
          /\ IsFunctionFrame(interp.trace[i].frame)
          /\ \E j \in (i + 1)..Len(interp.trace) :
                interp.trace[j].e = "stmt" /\ interp.trace[j].k = "PrintStmt"

RECURSIVE Chain(_, _)
\* The frames a lookup that starts in frame e walks through.
Chain(I, e) ==
    IF e = 0 THEN {} ELSE {e} \cup Chain(I, I.envs[e].parent)

\* Some diagnostic of the run carries this message.
Reported(message) ==
    \E i \in 1..Len(reports) : reports[i].message = message

\* C5: a function call runs its body in a fresh frame whose parent is the
\* frame captured when the function was defined, never the caller's
\* frame, at every call depth: a name bound only in the caller's local
\* frame is not resolvable in the callee (Undefined variable).
C5_CalleeFrameExtendsTheClosure ==
    /\ \A i \in 1..Len(interp.trace) :
          LET ev == interp.trace[i]
          IN  ev.e = "enter"
                => /\ ev.frame \notin {ev.caller, interp.callables[ev.fn].closure}
                   /\ interp.envs[ev.frame].parent = interp.callables[ev.fn].closure
                   /\ ev.caller \notin Chain(interp, interp.callables[ev.fn].closure)
                        => ev.caller \notin Chain(interp, ev.frame)
    /\ (source = ScopeProgram /\ pc # "run")
          => /\ Reported("Undefined variable 'x'.")
             /\ interp.out = <<>>

\* A function was called from a local frame that binds x, with a closure
\* that does not, and its lookup of x failed.
C5_Witness ==
    /\ source = ScopeProgram
    /\ Reported("Undefined variable 'x'.")
    /\ \E i \in 1..Len(interp.trace) :
          /\ interp.trace[i].e = "enter"
          /\ interp.trace[i].caller # 1
          /\ "x" \in DOMAIN interp.envs[interp.trace[i].caller].values
          /\ interp.callables[interp.trace[i].fn].closure = 1

\* The statement interpret is about to execute is PRINT(f()) with f a
\* global function without parameters whose body is `RETURN x`.
IsPrintOfGlobalReader ==
    /\ pc = "run"
    /\ interp.ip <= Len(parser.statements)
    /\ interp.fuel > 0
    /\ LET stmt == parser.statements[interp.ip]
       IN  /\ stmt.k = "PrintStmt"
           /\ stmt.expr.k = "Call"
           /\ stmt.expr.args = <<>>
           /\ stmt.expr.callee.k = "Variable"
           /\ stmt.expr.callee.name.lexeme \in DOMAIN interp.envs[1].values
           /\ LET fv == interp.envs[1].values[stmt.expr.callee.name.lexeme]
              IN  /\ fv.t = "callable"
                  /\ interp.callables[fv.ref].kind = "fn"
                  /\ interp.callables[fv.ref].declaration.params = <<>>
                  /\ Len(interp.callables[fv.ref].declaration.body) = 1
                  /\ interp.callables[fv.ref].declaration.body[1].k = "ReturnStmt"
                  /\ interp.callables[fv.ref].declaration.body[1].value.k = "Variable"

\* C6: a Function holds a reference to its defining frame, not a copy of
\* it: at every call, the function reads the bindings the defining frame
\* has then, those made after the FunctionStmt executed included.  A
\* global function whose body is `RETURN x` yields the value the global x
\* has when it is called, and fails only when there is no global x.
C6_FunctionSeesItsDefiningFrame ==
    [][IsPrintOfGlobalReader =>
        LET stmt == parser.statements[interp.ip]
            fv == interp.envs[1].values[stmt.expr.callee.name.lexeme]
            x == interp.callables[fv.ref].declaration.body[1].value.name.lexeme
        IN  IF x \in DOMAIN interp.envs[1].values
            THEN /\ pc' = "run"
                 /\ interp'.out =
                        Append(interp.out,
                               Display(interp, interp.envs[1].values[x]))
            ELSE /\ pc' # "run"
                 /\ interp'.out = interp.out
      ]_vars

\* f, defined before x, was called after x = 5 and again after x = 6.
C6_Witness ==
    /\ source = ClosureProgram
    /\ pc = "returned"
    /\ interp.out = <<"5", "6">>

\* The names bound somewhere on the heap, and one bound nowhere.
BoundNames ==
    UNION {DOMAIN interp.envs[e].values : e \in 1..Len(interp.envs)} \cup {"fresh"}

\* The expression `name = TRUE`.
AssignTrue(name) ==
    [k |-> "Assign",
     target |-> [k |-> "Variable",
                 name |-> Token("TOK_IDENTIFIER", name, 1, 0, Len(name))],
     value |-> [k |-> "Literal", token |-> Token("TOK_TRUE", "TRUE", 1, 0, 4)]]

\* The innermost frame of the chain of e that binds name: what the
\* assignment must write, e itself when no frame of the chain binds it.
RECURSIVE Owner(_, _, _, _)
Owner(I, e, from, name) ==
    IF from = 0 THEN e
    ELSE IF name \in DOMAIN I.envs[from].values THEN from
    ELSE Owner(I, e, I.envs[from].parent, name)

\* C7: assigning to a variable name updates the binding in the innermost
\* frame of the current chain that holds the name and creates no binding;
\* only when no frame of the chain holds it is a binding created, in the
\* current frame.  Every other frame and binding is unchanged.  Hence a
\* function that assigns to an existing global changes the global, and a
\* name first assigned in a function is not bound after the call returns.
C7_AssignmentWritesTheOwningFrame ==
    /\ \A e \in 1..Len(interp.envs) : \A name \in BoundNames :
          LET I0 == [interp EXCEPT !.environment = e]
              r == evaluate(I0, AssignTrue(name))
              owner == Owner(I0, e, e, name)
          IN  /\ r.st = "ok"
              /\ r.v = BoolValue(TRUE)
              /\ Len(r.I.envs) = Len(interp.envs)
              /\ \A e2 \in 1..Len(interp.envs) :
                    /\ r.I.envs[e2].parent = interp.envs[e2].parent
                    /\ DOMAIN r.I.envs[e2].values =
                          DOMAIN interp.envs[e2].values
                            \cup (IF e2 = owner THEN {name} ELSE {})
                    /\ \A n2 \in DOMAIN r.I.envs[e2].values :
                          r.I.envs[e2].values[n2] =
                            IF e2 = owner /\ n2 = name THEN BoolValue(TRUE)
                            ELSE interp.envs[e2].values[n2]
    /\ (source = GlobalProgram /\ pc # "run")
          => /\ interp.out = <<Display(interp, NumberValue(2, 1))>>
             /\ Reported("Undefined variable 'h'.")
             /\ DOMAIN interp.envs[1].values = {"g", "f"}

\* A function has assigned the global g and the new name h; after the
\* call g is 2 in the global frame and h is bound in the frame of the
\* call only.
C7_Witness ==
    /\ source = GlobalProgram
    /\ pc # "run"
    /\ interp.envs[1].values["g"] = NumberValue(2, 1)
    /\ \E e \in 2..Len(interp.envs) :
          /\ "h" \in DOMAIN interp.envs[e].values
          /\ "g" \notin DOMAIN interp.envs[e].values

\* C8: a call of a user function declared with n parameters runs the body
\* iff exactly n arguments are supplied, for every n >= 0 (n >= 2
\* included); with another number of arguments the error is raised before
\* the body executes.
C8_CallRunsIffArityMatches ==
    \A i \in 1..Len(interp.trace) :
        LET ev == interp.trace[i]
        IN  (ev.e = "apply" /\ interp.callables[ev.callable].kind = "fn")
              => LET n == Len(interp.callables[ev.callable].declaration.params)
                 IN  ev.ran <=> ev.args = n

RECURSIVE Ancestor(_, _, _)
\* The class k steps up the superclass chain of class c (c itself for
\* k = 0), 0 beyond the end of the chain.
Ancestor(I, c, k) ==
    IF k = 0 \/ c = 0 THEN c
    ELSE Ancestor(I, I.callables[c].superclass, k - 1)

\* The method names the class programs declare, and one none declares.
MethodNames == {"constructor", "m", "n", "k", "q", "absent"}

\* C11: method lookup on a class yields the method declared by the
\* nearest class of the chain class, superclass, superclass's superclass,
\* ... that declares the name (an own declaration overrides an inherited
\* one) and none when no class of the chain declares it; a class outside
\* the chain is never consulted.  In the tree-walker, on every heap a run
\* reaches and for the instances made of the chain C -> B -> A.
C11_MethodLookupFollowsTheChain ==
    interp.impl = "tree-walker" =>
        /\ \A c \in 1..Len(interp.callables) : \A name \in MethodNames :
              interp.callables[c].kind = "class" =>
                LET declaring ==
                        {k \in 0..Len(interp.callables) :
                            /\ Ancestor(interp, c, k) # 0
                            /\ name \in DOMAIN
                                  interp.callables[Ancestor(interp, c, k)].methods}
                    found == findMethod(interp, c, name)
                IN  IF declaring = {} THEN found = 0
                    ELSE LET nearest == CHOOSE k \in declaring :
                                            \A j \in declaring : k <= j
                             owner == Ancestor(interp, c, nearest)
                         IN  /\ found = interp.callables[owner].methods[name]
                             /\ interp.callables[found].declaration.name.lexeme
                                    = name
        /\ (source = InheritProgram /\ pc # "run")
              => /\ interp.out = <<"3", "2", "4", "3">>
                 /\ Reported("Undefined property 'k'.")

\* The chain C -> B -> A exists and lookups on instances of C and B have
\* found the override of B, the methods inherited from A and C's own.
C11_Witness ==
    /\ source = InheritProgram
    /\ interp.impl = "tree-walker"
    /\ interp.out = <<"3", "2", "4", "3">>
    /\ \E c \in 1..Len(interp.callables) :
          /\ interp.callables[c].kind = "class"
          /\ Ancestor(interp, c, 2) # 0
          /\ findMethod(interp, c, "n") # 0
          /\ "n" \notin DOMAIN interp.callables[c].methods
          /\ findMethod(interp, c, "q") = 0

\* The expression `NEW name(1)`.
NewOf(name) ==
    [k |-> "New",
     className |-> Token("TOK_IDENTIFIER", name, 1, 0, Len(name)),
     args |-> <<[k |-> "Literal", token |-> Token("TOK_INTEGER", "1", 1, 0, 1)]>>]

\* C12: invoking a class yields a new Instance of it, distinct from every
\* earlier instance and leaving their field tables alone; the value a
\* constructor returns is discarded and the fields the constructor sets
\* through `this` are on the yielded instance; the field tables of two
\* instances are independent.  With constructor(v) setting this.v and
\* returning 5: p = NEW P(1), q = NEW P(2) give p.v = 1 and q.v = 2, and
\* after q.v = 3 and q.w = 4, p.v is still 1 and p has no w.
C12_ClassCallYieldsFreshInstance ==
    /\ \A name \in DOMAIN interp.envs[1].values :
          LET c == interp.envs[1].values[name]
              r == evaluate(interp, NewOf(name))
          IN  (c.t = "callable" /\ interp.callables[c.ref].kind = "class"
                    /\ r.st = "ok")
                => /\ r.v.t = "inst"
                   /\ r.v.ref \notin 1..Len(interp.instances)
                   /\ r.v.ref \in 1..Len(r.I.instances)
                   /\ \A i \in 1..Len(interp.instances) :
                         r.I.instances[i] = interp.instances[i]
    /\ (source = ConstructorProgram /\ pc # "run")
          => /\ interp.out = <<Display(interp, NumberValue(1, 1)),
                               Display(interp, NumberValue(2, 1)),
                               Display(interp, NumberValue(1, 1))>>
             /\ Reported("Undefined property 'w'.")

\* The expression `name(fresh = TRUE)`.
CallWithAssignment(name) ==
    [k |-> "Call",
     callee |-> [k |-> "Variable",
                 name |-> Token("TOK_IDENTIFIER", name, 1, 0, Len(name))],
     args |-> <<AssignTrue("fresh")>>]

\* C13: in a call the callee is evaluated and checked to be a Callable
\* before any argument is evaluated.  Calling a name bound to a value that
\* is not a Callable raises 'Can only call functions and classes.' and
\* the assignment in its argument has not happened: no frame has changed
\* and nothing was printed.  Arguments are evaluated left to right: after
\* f(x = 1, x = 2), x is 2.
C13_CalleeCheckedBeforeArguments ==
    /\ \A name \in DOMAIN interp.envs[1].values :
          LET r == evaluate(interp, CallWithAssignment(name))
          IN  interp.envs[1].values[name].t # "callable"
                => /\ r.st = "err"
                   /\ r.msg = "Can only call functions and classes."
                   /\ r.I.envs = interp.envs
                   /\ r.I.out = interp.out
    /\ (source = ArgumentOrderProgram /\ pc # "run")
          => /\ interp.envs[1].values["x"] = NumberValue(2, 1)
             /\ "y" \notin DOMAIN interp.envs[1].values

\* The literal expression a numeric lexeme parses to.
NumberLiteral(lexeme) ==
    [k |-> "Literal",
     token |-> Token(IF \E i \in 0..(Len(lexeme) - 1) : Ch(lexeme, i) = "."
                     THEN "TOK_FLOAT" ELSE "TOK_INTEGER",
                     lexeme, 1, 0, Len(lexeme))]

\* The expression `-lexeme` as Parser::parseExpression builds it: 0 - lexeme.
Negative(lexeme) ==
    [k |-> "Binary", left |-> NumberLiteral("0"),
     op |-> Token("TOK_MINUS", "-", 1, 0, 1), right |-> NumberLiteral(lexeme)]

\* Index expressions: within, beyond and below the arrays of the programs,
\* whole and fractional.
IndexExprs ==
    {NumberLiteral("0"), NumberLiteral("1"), NumberLiteral("1.5"),
     NumberLiteral("2"), NumberLiteral("3"), NumberLiteral("3.5"),
     NumberLiteral("7"), Negative("1"), Negative("0.5"), Negative("1.5"),
     Negative("3")}

\* The expression `name[index]`.
ElementOf(name, index) ==
    [k |-> "ArrayAccess",
     array |-> [k |-> "Variable",
                name |-> Token("TOK_IDENTIFIER", name, 1, 0, Len(name))],
     index |-> index]

\* C14: reading a[i] or assigning a[i] = v with a Number i that is
\* negative or not less than the length of a raises a Runtime error, and
\* no element is read or modified: the array is unchanged and the index is
\* never wrapped, clamped or rounded into range.  For every global bound
\* to an array and every index expression.
C14_IndexOutOfRangeIsAnError ==
    \A name \in DOMAIN interp.envs[1].values : \A index \in IndexExprs :
        LET a == interp.envs[1].values[name]
            i == evaluate(interp, index).v
            read == evaluate(interp, ElementOf(name, index))
            write == evaluate(interp,
                        [k |-> "Assign", target |-> ElementOf(name, index),
                         value |-> NumberLiteral("8")])
        IN  (/\ a.t \in {"arr", "vec"}
             /\ \/ i.n < 0
                \/ i.n >= Len(ElementsOf(interp, a)) * i.d)
              => /\ read.st = "err"
                 /\ write.st = "err"
                 /\ ElementsOf(write.I, write.I.envs[1].values[name])
                        = ElementsOf(interp, a)

\* The expression `name`.
VariableNamed(name) ==
    [k |-> "Variable", name |-> Token("TOK_IDENTIFIER", name, 1, 0, Len(name))]

\* The expression `left <op> right` for the operator spelled lexeme.
BinaryOf(left, type, lexeme, right) ==
    [k |-> "Binary", left |-> left,
     op |-> Token(type, lexeme, 1, 0, Len(lexeme)), right |-> right]

\* The == of the evaluator that runs, on two values.
Equals(I, a, b) ==
    IF I.impl = "visitor" THEN Interpreter_isEqual(a, b)
    ELSE TreeWalker_isEqual(a, b)

\* Right operands of IN: every global, the empty array and [1, 2].
Haystacks ==
    {VariableNamed(name) : name \in DOMAIN interp.envs[1].values}
        \cup {[k |-> "ArrayLit", elements |-> <<>>],
              [k |-> "ArrayLit",
               elements |-> <<NumberLiteral("1"), NumberLiteral("2")>>]}

\* C16: `x IN y` requires y to be an Array, otherwise a Runtime error is
\* raised, and yields the Boolean that is true iff some element of y is ==
\* to x: false for the empty array, and never a value that is not a
\* Boolean.  `IF 2 IN [1, 2, 3] THEN PRINT("yes") ELSE PRINT("no") END IF`
\* prints yes, 8 IN [1, 2] and 1 IN [] are false, and 1 IN 1 is an error.
C16_InYieldsMembership ==
    /\ \A x \in {NumberLiteral("1"), NumberLiteral("2"), NumberLiteral("8")} :
       \A y \in Haystacks :
          LET left == evaluate(interp, x).v
              right == evaluate(interp, y)
              r == evaluate(interp, BinaryOf(x, "TOK_IN", "IN", y))
              elems == ElementsOf(right.I, right.v)
          IN  IF right.v.t \in {"arr", "vec"}
              THEN /\ r.st = "ok"
                   /\ r.v = BoolValue(\E i \in 1..Len(elems) :
                                        Equals(right.I, left, elems[i]))
              ELSE r.st = "err"
    /\ (source = MembershipProgram /\ pc # "run")
          => /\ interp.out = <<"yes", "false", "false">>
             /\ pc \in {"threw", "returned"}
             /\ interp.ip = 4

\* Both values denote the same object: the same vector, instance or
\* callable on the heap, or the value of one and the same variable.
SameObject(a, va, b, vb) ==
    \/ a = b
    \/ va.t = vb.t /\ va.t \in {"vec", "inst", "callable"} /\ va.ref = vb.ref

\* C17: == compares Null, Number, String and Boolean by value, so v == v
\* is true for each of them; it compares Arrays, Instances and Callables
\* by identity, so a variable that holds an array, an instance or a
\* function is equal to itself and to its aliases; operands of different
\* tags are unequal.
C17_EqualityByValueAndIdentity ==
    /\ \A a, b \in DOMAIN interp.envs[1].values :
          LET va == interp.envs[1].values[a]
              vb == interp.envs[1].values[b]
              r == evaluate(interp, BinaryOf(VariableNamed(a), "TOK_EQUAL", "==",
                                            VariableNamed(b)))
          IN  /\ r.st = "ok"
              /\ r.v.t = "bool"
              /\ va.t # vb.t => ~r.v.b
              /\ (va.t = vb.t /\ va.t \in {"null", "num", "str", "bool"})
                    => (r.v.b <=> va = vb)
              /\ (va.t = vb.t /\ va.t \in {"vec", "inst", "callable"})
                    => (r.v.b <=> SameObject(a, va, b, vb))
              /\ (va.t = "arr" /\ a = b) => r.v.b
    /\ (source = EqualityProgram /\ pc = "returned")
          => interp.out = <<"true", "false", "false", "true", "true", "true", "true">>

\* The literal expression of a string.
StringLiteral(text) ==
    [k |-> "Literal", token |-> Token("TOK_STRING", text, 1, 0, Len(text) + 2)]

\* The statement `PRINT("text")`.
PrintOf(text) == [k |-> "PrintStmt", expr |-> StringLiteral(text)]

\* Conditions: every global, and literals of each primitive tag.
Conditions ==
    {VariableNamed(name) : name \in DOMAIN interp.envs[1].values}
        \cup {NumberLiteral("0"), NumberLiteral("0.0"), NumberLiteral("3"),
              NumberLiteral("0.5"), StringLiteral(""), StringLiteral("0"),
              [k |-> "Literal", token |-> Token("TOK_TRUE", "TRUE", 1, 0, 4)],
              [k |-> "Literal", token |-> Token("TOK_FALSE", "FALSE", 1, 0, 5)],
              [k |-> "ArrayLit", elements |-> <<>>]}

\* The truthiness of a value: Null is false, a Boolean is itself, a Number
\* is false iff it is zero, a String is false iff it is empty, and an
\* Array, a Callable and an Instance are true.
Truthy(v) ==
    CASE v.t = "null" -> FALSE
      [] v.t = "bool" -> v.b
      [] v.t = "num" -> v.n # 0
      [] v.t = "str" -> v.s # ""
      [] OTHER -> TRUE

\* C18: an IF takes its THEN branch, and a WHILE runs its body, exactly
\* when the condition is truthy, where Null is false, a Boolean is its own
\* value, a Number is false iff it is zero, a String is false iff it is
\* empty, and an Array, a Callable and an Instance are true: `WHILE x`
\* ends when x reaches 0 and `IF ""` takes the ELSE branch.
C18_TruthinessOfConditions ==
    /\ \A c \in Conditions :
          LET v == evaluate(interp, c).v
              if == execute(interp, [k |-> "IfStmt", condition |-> c,
                                     thenBranch |-> <<PrintOf("then")>>,
                                     elseBranch |-> <<PrintOf("else")>>])
              while == execute(interp, [k |-> "WhileStmt", condition |-> c,
                                        body |-> <<PrintOf("body")>>])
          IN  /\ if.st = "ok"
              /\ if.I.out = Append(interp.out,
                                   IF Truthy(v) THEN "then" ELSE "else")
              /\ interp.fuel > 0 => (Truthy(v) <=> while.I.out # interp.out)
              /\ ~Truthy(v) => while.st = "ok"
    /\ (source = TruthProgram /\ pc # "run")
          => /\ pc = "returned"
             /\ interp.out = <<"0", "else", "array">>

\* Expressions whose value is a Number: literals, a negation, a difference
\* that is zero, and every global bound to a Number.
NumberExprs ==
    {NumberLiteral("0"), NumberLiteral("0.0"), NumberLiteral("2"),
     NumberLiteral("0.5"), Negative("3"),
     BinaryOf(NumberLiteral("2"), "TOK_MINUS", "-", NumberLiteral("2"))}
        \cup {VariableNamed(name) :
                name \in {g \in DOMAIN interp.envs[1].values :
                            interp.envs[1].values[g].t = "num"}}

\* The statement `PRINT(expr)`.
PrintExpr(expr) == [k |-> "PrintStmt", expr |-> expr]

\* The expression `name = expr`.
AssignTo(name, expr) ==
    [k |-> "Assign", target |-> VariableNamed(name), value |-> expr]

\* The fraction v equals num / den.
IsQuotient(v, num, den) ==
    v.t = "num" /\ v.d # 0 /\ v.n * den = num * v.d

\* C21: l / r on two Numbers with r equal to zero raises the Runtime error
\* "Division by zero." and yields no value: an assignment of the quotient
\* binds nothing and a PRINT of it prints nothing.  With r other than
\* zero, and for +, - and * on two Numbers, the Number of the arithmetic
\* result is yielded without error.
C21_DivisionByZeroIsAnError ==
    /\ \A x, y \in NumberExprs :
          LET l == evaluate(interp, x).v
              r == evaluate(interp, y).v
              sum == evaluate(interp, BinaryOf(x, "TOK_PLUS", "+", y))
              difference == evaluate(interp, BinaryOf(x, "TOK_MINUS", "-", y))
              product == evaluate(interp, BinaryOf(x, "TOK_MULTIPLY", "*", y))
              division == BinaryOf(x, "TOK_DIVIDE", "/", y)
              quotient == evaluate(interp, division)
              assigned == evaluate(interp, AssignTo("fresh", division))
              printed == execute(interp, PrintExpr(division))
          IN  /\ sum.st = "ok"
              /\ IsQuotient(sum.v, l.n * r.d + r.n * l.d, l.d * r.d)
              /\ difference.st = "ok"
              /\ IsQuotient(difference.v, l.n * r.d - r.n * l.d, l.d * r.d)
              /\ product.st = "ok"
              /\ IsQuotient(product.v, l.n * r.n, l.d * r.d)
              /\ IF r.n = 0
                 THEN /\ quotient.st = "err"
                      /\ quotient.msg = "Division by zero."
                      /\ assigned.st = "err"
                      /\ assigned.I.envs = interp.envs
                      /\ printed.st = "err"
                      /\ printed.I.out = interp.out
                 ELSE /\ quotient.st = "ok"
                      /\ IsQuotient(quotient.v, l.n * r.d, l.d * r.n)
                      /\ assigned.st = "ok"
                      /\ printed.st = "ok"
                      /\ Len(printed.I.out) = Len(interp.out) + 1
    /\ (source = DivisionProgram /\ pc # "run")
          => /\ interp.envs[1].values["y"] = NumberValue(3, 2)
             /\ Len(interp.out) = 1
             /\ interp.ip = 6
             /\ Len(reports) = 1
             /\ reports[1].type = "Runtime"
             /\ reports[1].message = "Division by zero."
             /\ interp.envs[1].values["w"] = NumberValue(5, 1)

\* The run of a program has come to a division of 6 by a global that is 0.
C21_Witness ==
    /\ source = DivisionProgram
    /\ pc # "run"
    /\ interp.envs[1].values["z"] = NumberValue(0, 1)
    /\ Reported("Division by zero.")

\* C23: a Class object stays alive as long as an Instance of it is
\* reachable.  In the tree-walker, the class of every instance that a
\* global variable holds has not been released, and no property access
\* has touched a released class object; after the name of the class is
\* rebound, or the class is declared again, a method of an existing
\* instance still resolves through its original class: p.m() is 1.
C23_ClassOutlivesItsInstances ==
    interp.impl = "tree-walker"
        => /\ \A g \in DOMAIN interp.envs[1].values :
                LET v == interp.envs[1].values[g]
                IN  v.t = "inst" => ~Released(interp, interp.instances[v.ref].klass)
           /\ \A i \in 1..Len(interp.trace) : interp.trace[i].e # "dangling"
           /\ (source = LifetimeProgram /\ pc # "run")
                => pc = "returned" /\ interp.out = <<"1", "1">>
           /\ (source = RedeclareProgram /\ pc # "run")
                => pc = "returned" /\ interp.out = <<"1">>

\* The expression `name(args)`.
CallOf(name, args) ==
    [k |-> "Call", callee |-> VariableNamed(name), args |-> args]

\* The expression `NEW name(args)`.
NewWith(name, args) ==
    [k |-> "New", className |-> Token("TOK_IDENTIFIER", name, 1, 0, Len(name)),
     args |-> args]

\* The calls nested in one invocation that is evaluated on a reachable state.
CallDepth == 3

\* The interpreter with e as its current environment, and at most
\* CallDepth nested calls and loop iterations left.
InFrame(e) ==
    [interp EXCEPT !.environment = e,
                   !.fuel = IF @ > CallDepth THEN CallDepth ELSE @]

\* Argument lists of zero, one and two Numbers.
ArgLists ==
    {<<>>, <<NumberLiteral("1")>>, <<NumberLiteral("1"), NumberLiteral("2")>>}

\* A call and a class invocation of every global, with every argument list.
Invocations ==
    UNION {{CallOf(name, args), NewWith(name, args)} :
            name \in DOMAIN interp.envs[1].values, args \in ArgLists}

\* Blocks that exit normally, by a return signal and by a Runtime error,
\* at once and after a first statement.
Blocks ==
    LET normal == PrintOf("block")
        return == [k |-> "ReturnStmt", value |-> NumberLiteral("1")]
        error == [k |-> "ExpressionStmt", expr |-> VariableNamed("absent")]
    IN  {<<>>, <<normal>>, <<return>>, <<error>>, <<normal, return>>,
         <<normal, error>>}

\* C24: whenever a function call, a class invocation or executeBlock
\* exits, normally, by a return signal or by a Runtime error, the current
\* environment is the one that was current on entry; so between two
\* top-level statements the current environment is the global frame.
C24_EnvironmentRestoredOnExit ==
    /\ interp.environment = interp.globals
    /\ \A e \in 1..Len(interp.envs) :
          LET I0 == InFrame(e)
          IN  /\ \A c \in Invocations :
                    LET r == evaluate(I0, c)
                    IN  r.st \in {"ok", "err", "return"} => r.I.environment = e
              /\ \A e2 \in 1..Len(interp.envs) : \A b \in Blocks :
                    LET r == executeBlock(I0, b, e2)
                    IN  /\ r.st = CASE b = <<>> -> "ok"
                                    [] b[Len(b)].k = "PrintStmt" -> "ok"
                                    [] b[Len(b)].k = "ReturnStmt" -> "return"
                                    [] OTHER -> "err"
                        /\ r.I.environment = e

\* A Runtime error raised in a function called from a function has ended
\* the run of a program.
C24_Witness ==
    /\ source = ScopeProgram
    /\ pc # "run"
    /\ Reported("Undefined variable 'x'.")
    /\ Cardinality({i \in 1..Len(interp.trace) : interp.trace[i].e = "enter"}) = 2

\* C25: a return signal is never turned into a diagnostic.  A top-level
\* statement that raises no Runtime error, whether it completes (RETURN
\* statements executed in the calls it makes included) or is itself a
\* RETURN outside any function call, reports nothing.
C25_ReturnIsNotADiagnostic ==
    [][(/\ pc = "run"
        /\ interp.ip <= Len(parser.statements)
        /\ execute(interp, parser.statements[interp.ip]).st \in {"ok", "return"})
          => reports' = reports]_vars

\* The last declaration of the class called name among the statements of
\* the program, 0 when there is none.
ClassDeclNamed(name) ==
    LET decls == {i \in 1..Len(parser.statements) :
                    /\ parser.statements[i].k = "ClassStmt"
                    /\ parser.statements[i].name.lexeme = name}
    IN  IF decls = {} THEN 0
        ELSE CHOOSE i \in decls : \A j \in decls : j <= i

RECURSIVE DeclaredConstructor(_, _)
\* The parameters of the constructor of the class called name: those of
\* the nearest class up its chain that declares one, <<>> when none does.
DeclaredConstructor(name, depth) ==
    IF ClassDeclNamed(name) = 0 \/ depth = 0 THEN <<>>
    ELSE LET decl == parser.statements[ClassDeclNamed(name)]
             own == {i \in 1..Len(decl.methods) :
                        decl.methods[i].name.lexeme = "constructor"}
         IN  IF own # {} THEN decl.methods[CHOOSE i \in own : TRUE].params
             ELSE IF decl.superclass.type # "TOK_EOF"
             THEN DeclaredConstructor(decl.superclass.lexeme, depth - 1)
             ELSE <<>>

\* C27: `NEW C(args)` applies the argument-count requirement of a call.
\* When the number of arguments differs from the arity of the constructor
\* of C (0 when no class of its chain declares one) a Runtime error is
\* raised and no instance is created; otherwise the instance is created
\* and every constructor parameter is bound to its argument.
C27_NewChecksTheArgumentCount ==
    /\ \A g \in DOMAIN interp.envs[1].values : \A args \in ArgLists :
          LET c == interp.envs[1].values[g]
              params == DeclaredConstructor(interp.callables[c.ref].name, 3)
              r == evaluate(InFrame(1), NewWith(g, args))
              frame == Len(interp.envs) + 1
          IN  (c.t = "callable" /\ interp.callables[c.ref].kind = "class"
                    /\ interp.fuel > 0)
                => IF Len(args) # Len(params)
                   THEN /\ r.st = "err"
                        /\ r.I.instances = interp.instances
                   ELSE /\ r.st = "ok"
                        /\ r.v = InstanceValue(Len(interp.instances) + 1)
                        /\ Len(r.I.instances) = Len(interp.instances) + 1
                        /\ params # <<>>
                            => \A i \in 1..Len(params) :
                                /\ Len(r.I.envs) >= frame
                                /\ params[i].lexeme
                                      \in DOMAIN r.I.envs[frame].values
                                /\ r.I.envs[frame].values[params[i].lexeme]
                                      = evaluate(interp, args[i]).v
    /\ (source = NewArityProgram /\ pc # "run")
          => /\ interp.ip = 2
             /\ interp.out = <<>>
             /\ interp.instances = <<>>
             /\ Len(reports) = 1

\* Operands of a comparison: Numbers, a String, a Boolean, an array and
\* every global.
Comparands ==
    {NumberLiteral("0"), NumberLiteral("2"), NumberLiteral("0.5"), Negative("3"),
     StringLiteral("a"),
     [k |-> "Literal", token |-> Token("TOK_TRUE", "TRUE", 1, 0, 4)],
     [k |-> "ArrayLit", elements |-> <<NumberLiteral("1")>>]}
        \cup {VariableNamed(name) : name \in DOMAIN interp.envs[1].values}

\* The four comparison operators: kind and spelling.
Comparisons ==
    {<<"TOK_LESS_THAN", "<">>, <<"TOK_LT_OR_EQ", "<=">>,
     <<"TOK_GREATER_THAN", ">">>, <<"TOK_GT_OR_EQ", ">=">>}

\* The comparison of the fractions l and r by the operator of kind op.
Compares(op, l, r) ==
    CASE op = "TOK_LESS_THAN" -> l.n * r.d < r.n * l.d
      [] op = "TOK_LT_OR_EQ" -> l.n * r.d <= r.n * l.d
      [] op = "TOK_GREATER_THAN" -> l.n * r.d > r.n * l.d
      [] op = "TOK_GT_OR_EQ" -> l.n * r.d >= r.n * l.d

\* C29: each of <, <=, > and >= applied to two Numbers yields the Boolean
\* of the numeric comparison, and applied to an operand that is not a
\* Number raises a Runtime error; none of them yields a value that is not
\* a Boolean, such as one of its operands.
C29_ComparisonsYieldBooleans ==
    /\ \A x, y \in Comparands : \A op \in Comparisons :
          LET l == evaluate(interp, x).v
              r == evaluate(interp, y).v
              c == evaluate(interp, BinaryOf(x, op[1], op[2], y))
          IN  IF l.t = "num" /\ r.t = "num"
              THEN c.st = "ok" /\ c.v = BoolValue(Compares(op[1], l, r))
              ELSE c.st = "err"
    /\ (source = ComparisonProgram /\ pc # "run")
          => /\ interp.out = <<"true", "true", "true", "false">>
             /\ interp.ip = 5
             /\ Len(reports) = 1

\* INTEGER lexemes: small ones, one with leading zeros, INT_MAX, and ones
\* above INT_MAX, two of them above 2^32.
IntegerLexemes ==
    {"0", "7", "42", "007", "65536", "2147483647", "2147483648",
     "4294967296", "4294967303", "123456789012345"}

\* FLOAT lexemes of integer-valued Numbers.
WholeLexemes == {"3.0", "42.00", "2147483647.0", "2147483648.0"}

\* The Number equal to the decimal value of the digits s.
DecimalValue(s) ==
    IF ExceedsInt(s) THEN BigNumberValue(StripLeadingZeros(s), "")
    ELSE NumberValue(DigitsToNat(s, 0), 1)

\* C30: an INTEGER literal of any number of digits evaluates without error
\* to the Number equal to its decimal value, and an integer-valued Number
\* displays as that decimal without a decimal point, also above 2^31 - 1,
\* where it is neither rejected nor wrapped.
C30_IntegersOfAnySize ==
    /\ \A s \in IntegerLexemes :
          LET r == evaluate(interp, NumberLiteral(s))
          IN  /\ r.st = "ok"
              /\ r.v = DecimalValue(s)
              /\ Display(r.I, r.v) = StripLeadingZeros(s)
    /\ \A s \in WholeLexemes :
          LET r == evaluate(interp, NumberLiteral(s))
              dotAt == CHOOSE i \in 0..(Len(s) - 1) : Ch(s, i) = "."
          IN  r.st = "ok" /\ Display(r.I, r.v) = Substr(s, 0, dotAt)
    /\ \A e \in NumberExprs :
          LET r == evaluate(interp, e)
          IN  (r.st = "ok" /\ r.v.d = 1) => Display(r.I, r.v) = IntToString(r.v.n)
    /\ (source = IntegerProgram /\ pc # "run")
          => /\ interp.out = <<"2147483647", "4294967303", "7">>
             /\ reports = <<>>
====
